---- MODULE Spec2Model ----
(***************************************************************************)
(* A model of clog's slot store (clg::unsafe_rcv, rcv.hpp) and of the      *)
(* signal built on it (clg::signal / clg::cn, signal.hpp).                 *)
(*                                                                         *)
(* A store is a record                                                     *)
(*   next_    the cached cursor (size_t next_)                             *)
(*   buffer_  the cells, one per unit of capacity: Raw (<<>>) is a cell    *)
(*            that holds no constructed value, <<v>> one that holds v      *)
(*   current_ the sorted vector of occupied indices                        *)
(*   failed   TRUE once an assert of rcv.hpp / vectors.hpp did not hold     *)
(*            (the release build carries on, the debug build aborts)       *)
(* Indices are 0-based as in the source; sequences are 1-based, so cell i  *)
(* is buffer_[i + 1].                                                      *)
(*                                                                         *)
(* The signal is single-threaded and re-entrant: a callback may connect,   *)
(* destroy tokens and call the signal again. Its operator() is therefore   *)
(* split where control leaves it: entry (Emit), one turn of the loop up to *)
(* the call of a callback (VisitNext), the callback's return (Return) and  *)
(* the exit with its flush (Exit); stack holds the activations. Callbacks  *)
(* are known by the number of the connect call that connected them, which  *)
(* also numbers the token (cn) that call returned. A callback is modelled  *)
(* by its effect on the signal. In SpecSignal and SpecSelf tokens are not  *)
(* moved and the signal is neither moved nor destroyed; SpecDestroy adds   *)
(* the signal's destructor, which a callback may run too, and SpecMove a   *)
(* second signal that the first is move-constructed or move-assigned from. *)
(***************************************************************************)
EXTENDS Integers, Sequences, FiniteSets, TLC

VARIABLES
    store,      \* rcv: the unsafe_rcv<int> under test
    held,       \* rcv: the caller's handles, {[handle, value]} acquired and not released
    ret,        \* rcv: what the last call was and what it returned
    calls,      \* rcv: the calls made so far, as ret records (SpecCalls only)
    cns_,               \* signal: unsafe_rcv<cn_record> cns_
    visiting_,          \* signal: int visiting_
    deferred_disconnect_, \* signal: the handles to disconnect later
    to_disconnect_,     \* signal: the handles the last flush released
    tokens,             \* the cn objects made by connect: [alive, signal, handle]
    stack,              \* the activations of signal::operator(), outermost first
    nconn,              \* the number of connect calls made so far
    hist,               \* per connection: the handle connect returned, whether
                        \* its token was destroyed ("no", "pass": during the
                        \* outermost broadcast still in progress, "past":
                        \* before that)
    life,               \* whether the signal exists, and what its destructor
                        \* and the code that ran after it did
    other,              \* a second signal, the one the signal is moved from
    pushers_,           \* lock_free_processor: the pusher bodies [id, index, q]
    deferred_add_,      \* lock_free_processor: bodies made while processing
    deferred_remove_,   \* lock_free_processor: indices released while processing
    processing_,        \* lock_free_processor: bool processing_
    pusher,             \* the lock_free_pusher objects: [processor_, body_]
    consumer,           \* where the consumer thread is inside process_all
    producer,           \* a push in progress on a producer thread
    tally,              \* the build, the items pushed and processed, the
                        \* pushers released, what went wrong
    queues_,            \* locking_processor: clg::stable_vector<queue> queues_
    mutex_,             \* locking_processor: the thread that owns mutex_
    cthread,            \* where the consumer thread is in the locking processor
    pthread,            \* the call a producer thread is making on a pusher
    lk,                 \* the locking pushers held, the items pushed and
                        \* processed, what went wrong
    slots_,             \* serial_processor: clg::stable_vector<slot> slots_
    busy_slots_,        \* serial_processor: std::vector<uint32_t> busy_slots_
    deferred_release_,  \* serial_processor: std::vector<uint32_t> deferred_release_
    total_items_,       \* serial_processor: int total_items_
    sthread,            \* where the thread is inside serial_processor::process_all
    sr,                 \* the serial pushers held, the pushes made, the calls
                        \* of the processor function, what went wrong
    queue_vec_pair_,    \* lock_free_task_processor: std::array<queue_vector, 2>
    overflow_,          \* lock_free_task_processor: bool overflow_
    push_index_,        \* lock_free_task_processor: std::atomic<size_t> push_index_
    task_pusher,        \* the lock_free_task_pusher objects: [processor_, handle_],
                        \* and whether process_all was called since it was made
    tconsumer,          \* where the consumer thread is inside process_all
    tproducer,          \* a push in progress on the producer thread
    tp,                 \* the tasks pushed and run, what went wrong
    vector,             \* a clg::stable_vector<int>
    checked,            \* the last is_valid call on it and what it returned
    walk,               \* a loop over the vector with an iterator: its
                        \* position_, the indices visited and erased
    mgr,                \* a clg::undo_redo<KeyType>: position_, actions_,
                        \* merge_mode_, length_
    ur,                 \* the calls made on it, the commands they ran and
                        \* what they returned
    destroyed           \* the lock_free_pusher objects whose destructor ran

rcvVars == <<store, held, ret, calls>>
sigVars == <<cns_, visiting_, deferred_disconnect_, to_disconnect_, tokens, stack,
             nconn, hist>>
lifeVars == <<life, other>>
lfVars == <<pushers_, deferred_add_, deferred_remove_, processing_, pusher,
            consumer, producer, tally>>
lkVars == <<queues_, mutex_, cthread, pthread, lk>>
srVars == <<slots_, busy_slots_, deferred_release_, total_items_, sthread, sr>>
tkVars == <<queue_vec_pair_, overflow_, push_index_, task_pusher, tconsumer,
            tproducer, tp>>
svVars == <<vector, checked>>
moreVars == <<walk, mgr, ur, destroyed>>
procVars == <<lfVars, lkVars, srVars, tkVars, svVars, moreVars>>
vars == <<rcvVars, sigVars, lifeVars, procVars>>

----------------------------------------------------------------------------
(* Bounds of the model. *)

\* Largest capacity the rcv specifications let a store grow to.
MaxCap == 6
\* Largest number of handles held at once in the rcv specifications.
MaxHeld == 4
\* Number of calls SpecCalls records.
MaxCalls == 5
\* Number of connect calls made on the signal.
MaxConns == 3
\* Deepest nesting of signal::operator() calls.
MaxDepth == 2
\* Number of pushers made on the locking processor.
MaxQueues == 2
\* Number of items pushed to the locking processor.
MaxLkItems == 2
\* Number of pushers made on the serial processor.
MaxSlots == 1
\* Number of pushes made on the serial processor.
MaxSrItems == 2
\* Largest index of an indexed push.
MaxIndex == 1
\* Largest number of cells of the stable_vector.
MaxCells == 4
\* Number of pushers made on the lock-free task processor and of tasks
\* pushed.
MaxTaskPushers == 3
MaxTasks == 1
\* Number of connect calls and deepest nesting of operator() calls where the
\* signal is destroyed as well (SpecDestroy).
MaxLifeConns == 2
MaxLifeDepth == 1
\* Number of pushers made on a queue processor and of items pushed.
MaxPushers == 2
MaxItems == 2

\* The values stored: those of the spec's scenario.
Values == {10, 20, 30, 99}

\* The sizes SpecCalls passes to reserve.
ReserveSizes == {1, 3}

\* A cell with no constructed value in it, and a cell holding value v.
Raw == <<>>
Cell(v) == <<v>>

----------------------------------------------------------------------------
(* vectors.hpp: the sorted, unique, checked vector *)

\* std::lower_bound(first, last, value) on positions first..Len(vec)+1 of a
\* sorted vector: the first position at or after `first` whose element is not
\* less than value, Len(vec)+1 when there is none.
RECURSIVE lower_bound(_, _, _)
lower_bound(vec, first, value) ==
    IF first > Len(vec) THEN Len(vec) + 1
    ELSE IF vec[first] >= value THEN first
    ELSE lower_bound(vec, first + 1, value)

\* sorted::contains: binary_search
contains(vec, value) ==
    LET pos == lower_bound(vec, 1, value)
    IN  pos <= Len(vec) /\ vec[pos] = value

InsertAt(vec, pos, value) ==
    SubSeq(vec, 1, pos - 1) \o <<value>> \o SubSeq(vec, pos, Len(vec))

\* unique::insert with push_back in place of the insert at lower_bound.
unique_insert_back(vec, value) ==
    LET pos == lower_bound(vec, 1, value)
    IN  IF pos <= Len(vec) /\ ~(value < vec[pos])
        THEN [vec |-> vec, success |-> FALSE]
        ELSE [vec |-> Append(vec, value), success |-> TRUE]

\* unique::insert: lower_bound, then insert unless an equal element is there.
unique_insert(vec, value) ==
    LET pos == lower_bound(vec, 1, value)
    IN  IF pos <= Len(vec) /\ ~(value < vec[pos])
        THEN [vec |-> vec, success |-> FALSE]
        ELSE [vec |-> InsertAt(vec, pos, value), success |-> TRUE]

\* sorted::erase_all: erase the equal_range of value, return its length.
RECURSIVE upper_bound(_, _, _)
upper_bound(vec, first, value) ==
    IF first > Len(vec) THEN Len(vec) + 1
    ELSE IF vec[first] > value THEN first
    ELSE upper_bound(vec, first + 1, value)

erase_all(vec, value) ==
    LET beg == lower_bound(vec, 1, value)
        end == upper_bound(vec, beg, value)
    IN  [vec |-> SubSeq(vec, 1, beg - 1) \o SubSeq(vec, end, Len(vec)),
         count |-> end - beg]

----------------------------------------------------------------------------
(* rcv.hpp *)

EmptyStore == [next_ |-> 0, buffer_ |-> <<>>, current_ |-> <<>>, failed |-> FALSE]

capacity(s) == Len(s.buffer_)

\* detail::find_next_empty_cell: returns the old cursor and leaves the cursor
\* on the next index that is past the capacity or not in `current`.
RECURSIVE find_loop(_, _, _, _)
find_loop(current, buffer_capacity, next, check_beg) ==
    IF next >= buffer_capacity THEN next
    ELSE LET cb == lower_bound(current, check_beg, next)
         IN  IF cb > Len(current) THEN next
             ELSE IF current[cb] # next THEN next
             ELSE find_loop(current, buffer_capacity, next + 1, cb)

\* find_next_empty_cell without the loop that skips the occupied indices.
find_next_empty_cell_noskip(current, buffer_capacity, next) ==
    [out |-> next, next |-> next + 1]

find_next_empty_cell(current, buffer_capacity, next) ==
    [out |-> next, next |-> find_loop(current, buffer_capacity, next + 1, 1)]

\* rcv_default_resize_strategy::resize
strategy_resize(current_size, required_size) ==
    IF current_size >= required_size THEN current_size ELSE required_size * 2

\* resize that allocates the new buffer and moves nothing into it.
resize_fresh(s, new_size) ==
    IF capacity(s) >= new_size THEN s
    ELSE [s EXCEPT !.buffer_ = [i \in 1..new_size |-> Raw]]

\* unsafe_rcv::resize: a new buffer of new_size cells into which the occupied
\* cells are moved; nothing when the buffer is already that large.
resize(s, new_size) ==
    IF capacity(s) >= new_size THEN s
    ELSE [s EXCEPT !.buffer_ =
            [i \in 1..new_size |->
                IF i <= capacity(s) /\ contains(s.current_, i - 1)
                THEN s.buffer_[i] ELSE Raw]]

\* unsafe_rcv::reserve
reserve(s, size) == resize(s, size)

\* checked::vector::insert then rcv_buffer::construct_at, as acquire and
\* acquire_at both do: the asserts are that the index is not occupied and that
\* it lies inside the buffer.
occupy(s, index, value) ==
    LET ins == unique_insert(s.current_, index)
        inside == index < capacity(s)
    IN  [s EXCEPT !.current_ = ins.vec,
                  !.buffer_ = IF inside THEN [@ EXCEPT ![index + 1] = Cell(value)] ELSE @,
                  !.failed = @ \/ ~ins.success \/ ~inside]

\* unsafe_rcv::acquire: the store after the call and the handle returned.
acquire(s, value) ==
    LET found == find_next_empty_cell(s.current_, capacity(s), s.next_)
        index == found.out
        s1 == [s EXCEPT !.next_ = found.next]
        s2 == IF index >= capacity(s1)
              THEN resize(s1, strategy_resize(capacity(s1), index + 1))
              ELSE s1
    IN  [store |-> occupy(s2, index, value), handle |-> index]

\* release that leaves the cursor where it is.
release_norewind(s, index) ==
    LET er == erase_all(s.current_, index)
        inside == index < capacity(s)
    IN  [s EXCEPT !.current_ = er.vec,
                  !.buffer_ = IF inside THEN [@ EXCEPT ![index + 1] = Raw] ELSE @,
                  !.failed = @ \/ er.count # 1 \/ ~inside]

\* unsafe_rcv::release
release(s, index) ==
    LET er == erase_all(s.current_, index)
        inside == index < capacity(s)
    IN  [s EXCEPT !.current_ = er.vec,
                  !.buffer_ = IF inside THEN [@ EXCEPT ![index + 1] = Raw] ELSE @,
                  !.next_ = IF index < @ THEN index ELSE @,
                  !.failed = @ \/ er.count # 1 \/ ~inside]

\* unsafe_rcv::get: the cell at index (Cell(v) when it holds v); the assert is
\* that index is occupied.
get(s, index) == s.buffer_[index + 1]

\* unsafe_rcv::active_handles
active_handles(s) == s.current_

\* unsafe_rcv::size
size(s) == Len(s.current_)

----------------------------------------------------------------------------
(* signal.hpp *)

\* The values of cn_body::signal: the signal, or nothing.
This == "this"
Null == "null"

\* cn_record{}: no body, an empty std::function
DefaultRecord == [body |-> 0, cb |-> 0]

\* *cns_.get(handle) = record: a write through the pointer get returns; the
\* assert of get is that handle is occupied.
put(s, handle, record) ==
    IF contains(s.current_, handle) /\ handle < capacity(s)
    THEN [s EXCEPT !.buffer_ = [@ EXCEPT ![handle + 1] = Cell(record)]]
    ELSE [s EXCEPT !.failed = TRUE]

\* The record get returns a pointer to (DefaultRecord when the assert of get
\* fails, which sets failed in the step that reads it).
record_at(s, handle) ==
    IF contains(s.current_, handle) /\ handle < capacity(s) /\ get(s, handle) # Raw
    THEN get(s, handle)[1]
    ELSE DefaultRecord

\* signal::update
update(s, handle, body) ==
    put(s, handle, [record_at(s, handle) EXCEPT !.body = body])

\* signal::connect up to the construction of the cn: acquire a default record
\* and store the slot in it.
connect(s, slot) ==
    LET r == acquire(s, DefaultRecord)
    IN  [store |-> put(r.store, r.handle, [DefaultRecord EXCEPT !.cb = slot]),
         handle |-> r.handle]

\* signal::disconnect, line 163: whether the disconnect is put off.
defer_never(visiting) == FALSE

defer_always(visiting) == TRUE

defers(visiting) == visiting > 0

\* signal::disconnect, line 165: deferred_disconnect_.insert(handle)
insert_dropped(deferred, handle) == deferred

insert_deferred(deferred, handle) == deferred \cup {handle}

\* signal::operator(), line 124: the handles the loop goes through are the
\* copy taken on entry.
visit_list_live(frame, s) == active_handles(s)

visit_list(frame, s) == frame.handles

\* signal::operator(), line 128: a handle waiting to be disconnected is skipped.
is_skipped_never(handle, deferred, released) == FALSE

is_skipped_stale(handle, deferred, released) == handle \in deferred \cup released

is_skipped(handle, deferred, released) == handle \in deferred

\* signal::operator(), line 134, with visiting the counter after --visiting_:
\* whether the deferred disconnections are now done.
flushes_at_any_exit(visiting, deferred) == deferred # {}

flushes(visiting, deferred) == ~(visiting > 0 \/ deferred = {})

\* signal::do_deferred_disconnections: release every handle of the set. The
\* order the unordered_set is gone through does not change the result. No
\* release of the model adds to deferred_disconnect_ meanwhile, so the while
\* loop ends after one round.
RECURSIVE release_all(_, _)
release_all(s, handles) ==
    IF handles = {} THEN s
    ELSE LET h == CHOOSE x \in handles : TRUE
         IN  release_all(release(s, h), handles \ {h})

\* Token t exists and has not been destroyed.
TokenAlive(t) == t \in DOMAIN tokens /\ tokens[t].alive

Depth == Len(stack)

Top == stack[Depth]

\* Code outside the signal is running: no broadcast is in progress, or the
\* innermost one is inside a callback.
ClientRuns == IF Depth = 0 THEN TRUE ELSE Top.in_cb

\* The callback the innermost broadcast is inside (0 when there is none).
Running == IF Depth > 0 /\ Top.in_cb THEN Top.fired[Len(Top.fired)].cb ELSE 0

InitSignal ==
    /\ cns_ = EmptyStore
    /\ visiting_ = 0
    /\ deferred_disconnect_ = {}
    /\ to_disconnect_ = {}
    /\ tokens = <<>>
    /\ stack = <<>>
    /\ nconn = 0
    /\ hist = <<>>

\* The signal exists; nothing has been done to it after its destruction.
\*   at        the number of broadcasts in progress when ~signal ran
\*   live      the tokens whose back-reference ~signal nulled
\*   once      the handles ~signal released once, twice those it released twice
\*   dangling  ~signal wrote through the body pointer of a destroyed token
\*   uaf       a member of the signal was read or written after ~signal
\*   touched   a token called disconnect or update on the signal after ~signal
InitLife ==
    life = [alive |-> TRUE, at |-> 0, live |-> {}, once |-> {}, twice |-> {},
            dangling |-> FALSE, uaf |-> FALSE, touched |-> FALSE]

\* The second signal: its cns_ (its visiting_ stays 0: it is never called),
\* and, once the first signal has been moved from it, how ("ctor", "assign"),
\* the connections it had then (sources) and the connections the first
\* signal had then (old).
InitOther ==
    other = [cns_ |-> EmptyStore, visiting_ |-> 0, moved |-> "no",
             sources |-> {}, old |-> {}]

\* The consumer thread outside process_all.
Idle == [state |-> "idle", i |-> 0, buf |-> 0, active |-> 0, last |-> FALSE,
         grew |-> FALSE, item |-> 0]

\* No push in progress on the producer thread.
NoPush == [state |-> "idle", p |-> 0, idx |-> 0, item |-> 0]

\* A lock_free_processor as constructed, no pusher made yet, the build not
\* yet told apart.
InitLockFree ==
    /\ pushers_ = <<>>
    /\ deferred_add_ = <<>>
    /\ deferred_remove_ = <<>>
    /\ processing_ = FALSE
    /\ pusher = <<>>
    /\ consumer = Idle
    /\ producer = NoPush
    /\ tally = [build |-> "unset", nitems |-> 0, done |-> {}, processed |-> <<>>,
                released |-> {}, failed |-> FALSE, ub |-> FALSE, dirty |-> FALSE,
                ran |-> FALSE]

\* cn c = signal.connect(slot): connect, then cn::cn(signal, handle), which
\* points the record's body at the new token. The slot and the token are
\* numbered nconn + 1.
Connect ==
    LET id == nconn + 1
        r == connect(cns_, id)
    IN  /\ ClientRuns
        /\ nconn < MaxConns
        /\ cns_' = update(r.store, r.handle, id)
        /\ tokens' = Append(tokens, [alive |-> TRUE, signal |-> This, handle |-> r.handle])
        /\ nconn' = id
        /\ hist' = Append(hist, [handle |-> r.handle, destroyed |-> "no"])
        /\ UNCHANGED <<visiting_, deferred_disconnect_, to_disconnect_, stack>>

\* signal::disconnect(handle)
Disconnect(handle) ==
    IF defers(visiting_)
    THEN /\ deferred_disconnect_' = insert_deferred(deferred_disconnect_, handle)
         /\ UNCHANGED cns_
    ELSE /\ cns_' = release(cns_, handle)
         /\ UNCHANGED deferred_disconnect_

\* cn::~cn of token t
DestroyToken(t) ==
    /\ ClientRuns
    /\ tokens[t].alive
    /\ IF tokens[t].signal = Null
       THEN UNCHANGED <<cns_, deferred_disconnect_>>
       ELSE Disconnect(tokens[t].handle)
    /\ tokens' = [tokens EXCEPT ![t].alive = FALSE]
    /\ hist' = [hist EXCEPT ![t].destroyed = IF Depth > 0 THEN "pass" ELSE "past"]
    /\ UNCHANGED <<visiting_, to_disconnect_, stack, nconn>>

\* signal::operator(), lines 122-124: count the visit and copy the handles.
\* cbs is what the records at those handles hold at that moment and born the
\* number of connections made before it.
Emit ==
    /\ ClientRuns
    /\ Depth < MaxDepth
    /\ visiting_' = visiting_ + 1
    /\ stack' = Append(stack,
            [handles |-> active_handles(cns_), pos |-> 1, in_cb |-> FALSE,
             cbs |-> [i \in 1..Len(active_handles(cns_)) |->
                          record_at(cns_, active_handles(cns_)[i]).cb],
             born |-> nconn, fired |-> <<>>])
    /\ UNCHANGED <<cns_, deferred_disconnect_, to_disconnect_, tokens, nconn, hist>>

\* signal::operator(), lines 126-132, one turn of the loop up to the call of
\* the callback: a skipped handle is passed over, any other has its callback
\* called. fired notes the callback and whether its token was alive.
VisitNext ==
    /\ Depth > 0
    /\ ~Top.in_cb
    /\ Top.pos <= Len(visit_list(Top, cns_))
    /\ LET handle == visit_list(Top, cns_)[Top.pos]
           rec == record_at(cns_, handle)
       IN  IF is_skipped(handle, deferred_disconnect_, to_disconnect_)
           THEN /\ stack' = [stack EXCEPT ![Depth].pos = @ + 1]
                /\ UNCHANGED cns_
           ELSE IF contains(cns_.current_, handle)
           THEN /\ stack' = [stack EXCEPT
                        ![Depth].in_cb = TRUE,
                        ![Depth].fired = Append(@, [cb |-> rec.cb,
                                                    alive |-> TokenAlive(rec.body)])]
                /\ UNCHANGED cns_
           ELSE /\ stack' = [stack EXCEPT ![Depth].pos = @ + 1]
                /\ cns_' = [cns_ EXCEPT !.failed = TRUE]
    /\ UNCHANGED <<visiting_, deferred_disconnect_, to_disconnect_, tokens, nconn, hist>>

\* The callback returns and the loop moves on.
Return ==
    /\ Depth > 0
    /\ Top.in_cb
    /\ stack' = [stack EXCEPT ![Depth].in_cb = FALSE, ![Depth].pos = @ + 1]
    /\ UNCHANGED <<cns_, visiting_, deferred_disconnect_, to_disconnect_, tokens,
                   nconn, hist>>

\* signal::operator(), lines 134-157: count the visit out and, when it was the
\* outermost one and disconnections wait, do them (save_cns is a copy that
\* nothing reads). The operator() returns to its caller.
Exit ==
    /\ Depth > 0
    /\ ~Top.in_cb
    /\ Top.pos > Len(visit_list(Top, cns_))
    /\ visiting_' = visiting_ - 1
    /\ IF flushes(visiting_ - 1, deferred_disconnect_)
       THEN /\ to_disconnect_' = deferred_disconnect_
            /\ deferred_disconnect_' = {}
            /\ cns_' = release_all(cns_, deferred_disconnect_)
       ELSE UNCHANGED <<cns_, deferred_disconnect_, to_disconnect_>>
    /\ stack' = SubSeq(stack, 1, Depth - 1)
    /\ hist' = IF Depth = 1
               THEN [c \in DOMAIN hist |->
                        IF hist[c].destroyed = "pass"
                        THEN [hist[c] EXCEPT !.destroyed = "past"] ELSE hist[c]]
               ELSE hist
    /\ UNCHANGED <<tokens, nconn>>

NextSignal ==
    \/ Connect /\ UNCHANGED <<rcvVars, procVars, lifeVars>>
    \/ \E t \in DOMAIN tokens : DestroyToken(t) /\ UNCHANGED <<rcvVars, procVars, lifeVars>>
    \/ Emit /\ UNCHANGED <<rcvVars, procVars, lifeVars>>
    \/ VisitNext /\ UNCHANGED <<rcvVars, procVars, lifeVars>>
    \/ Return /\ UNCHANGED <<rcvVars, procVars, lifeVars>>
    \/ Exit /\ UNCHANGED <<rcvVars, procVars, lifeVars>>

\* The signal used as in the self-disconnect scenario: connections are made
\* and broadcasts started outside any broadcast, and all a callback may do is
\* destroy its own token.
NextSelf ==
    \/ Depth = 0 /\ Connect /\ UNCHANGED <<rcvVars, procVars, lifeVars>>
    \/ Depth = 0 /\ Emit /\ UNCHANGED <<rcvVars, procVars, lifeVars>>
    \/ Depth > 0 /\ Top.in_cb /\ DestroyToken(Running) /\ UNCHANGED <<rcvVars, procVars, lifeVars>>
    \/ VisitNext /\ UNCHANGED <<rcvVars, procVars, lifeVars>>
    \/ Return /\ UNCHANGED <<rcvVars, procVars, lifeVars>>
    \/ Exit /\ UNCHANGED <<rcvVars, procVars, lifeVars>>

----------------------------------------------------------------------------
(* A caller of an unsafe_rcv<int>: acquire, release of a held handle, reserve *)

Range(seq) == {seq[i] : i \in 1..Len(seq)}

\* ret: the call, its argument, the handle acquire returned, and the occupied
\* indices and the capacity as they were when the call was made.
NoCall == [op |-> "none", handle |-> 0, value |-> 0, before |-> <<>>, cap |-> 0]

InitRcv ==
    /\ store = EmptyStore
    /\ held = {}
    /\ ret = NoCall
    /\ calls = <<>>

\* The locking processor after construction, no pusher made.
InitLocking ==
    /\ queues_ = [front_ |-> -1, back_ |-> -1, position_ |-> 0, size_ |-> 0,
                  cells_ |-> <<>>]
    /\ mutex_ = "none"
    /\ cthread = [pc |-> "idle", it |-> -1, queue |-> <<>>]
    /\ pthread = [pc |-> "idle", op |-> "none", h |-> 0, item |-> 0]
    /\ lk = [held |-> {}, nitems |-> 0, via |-> <<>>, processed |-> <<>>,
             ub |-> FALSE, threw |-> FALSE]

\* The serial processor after construction, no pusher made.
InitSerial ==
    /\ slots_ = [front_ |-> -1, back_ |-> -1, position_ |-> 0, size_ |-> 0,
                 cells_ |-> <<>>]
    /\ busy_slots_ = <<>>
    /\ deferred_release_ = <<>>
    /\ total_items_ = 0
    /\ sthread = [pc |-> "idle", busy |-> <<>>, pos |-> 0, h |-> 0,
                  phase |-> "items", k |-> 0]
    /\ sr = [held |-> {}, nitems |-> 0, batch |-> {}, want |-> {},
             fresh |-> {}, processed |-> <<>>, spin |-> FALSE, ub |-> FALSE]

\* No process_all of the task processor in progress.
TaskIdle == [pc |-> "idle", vec |-> 0, handles |-> <<>>, pos |-> 0, buf |-> 0,
             old |-> FALSE, grew |-> FALSE]

\* No push in progress on the producer thread of the task processor.
NoTaskPush == [pc |-> "idle", p |-> 0, vec |-> 0, task |-> 0]

\* A lock_free_task_processor as constructed. queue_vec_pair_[k] of the
\* source is queue_vec_pair_[k + 1] here.
InitTasks ==
    /\ queue_vec_pair_ = <<EmptyStore, EmptyStore>>
    /\ overflow_ = FALSE
    /\ push_index_ = 0
    /\ task_pusher = <<>>
    /\ tconsumer = TaskIdle
    /\ tproducer = NoTaskPush
    /\ tp = [ntasks |-> 0, done |-> {}, executed |-> <<>>, ub |-> FALSE]

\* No is_valid call made since the vector last changed.
NoCheck == [index |-> -1, out |-> FALSE]

\* A stable_vector<int> as constructed.
InitStable ==
    /\ vector = [front_ |-> -1, back_ |-> -1, position_ |-> 0, size_ |-> 0,
                 cells_ |-> <<>>]
    /\ checked = NoCheck

\* No loop over the vector is running.
NoWalk == [active |-> FALSE, forward |-> TRUE, position_ |-> -1, start |-> <<>>,
           visited |-> <<>>, erased |-> {}]

InitWalk == walk = NoWalk

\* undo_redo(size_t length = 0): the history lengths constructed with.
MaxLength == 2

\* undo_redo(length): an undo_redo with nothing committed.
undo_redo(length) ==
    [position_ |-> 0, actions_ |-> <<>>, merge_mode_ |-> "none", length_ |-> length]

\* An undo_redo constructed with the default length.
InitUndo ==
    /\ mgr = undo_redo(0)
    /\ ur = [commits |-> <<>>, undone |-> 0, plain |-> TRUE, ran |-> <<>>,
             out |-> <<>>, ncalls |-> 0]

Init ==
    /\ InitRcv /\ InitSignal /\ InitLife /\ InitOther /\ InitLockFree /\ InitLocking
    /\ InitSerial /\ InitTasks /\ InitStable /\ InitWalk /\ InitUndo
    /\ destroyed = {}

SpecSignal == Init /\ [][NextSignal]_vars

SpecSelf == Init /\ [][NextSelf]_vars

\* h = store.acquire(v), for a store that stays within MaxCap cells
Acquire(v) ==
    LET r == acquire(store, v)
    IN  /\ Cardinality(held) < MaxHeld
        /\ capacity(r.store) <= MaxCap
        /\ store' = r.store
        /\ held' = held \cup {[handle |-> r.handle, value |-> v]}
        /\ ret' = [op |-> "acquire", handle |-> r.handle, value |-> v,
                   before |-> store.current_, cap |-> capacity(store)]

\* store.release(h) of a handle the caller holds
Release(e) ==
    /\ e \in held
    /\ store' = release(store, e.handle)
    /\ held' = held \ {e}
    /\ ret' = [op |-> "release", handle |-> e.handle, value |-> e.value,
               before |-> store.current_, cap |-> capacity(store)]

\* store.reserve(n)
Reserve(n) ==
    /\ store' = reserve(store, n)
    /\ UNCHANGED held
    /\ ret' = [op |-> "reserve", handle |-> 0, value |-> n,
               before |-> store.current_, cap |-> capacity(store)]

NextRcv ==
    \/ \E v \in Values : Acquire(v) /\ UNCHANGED <<calls, sigVars, lifeVars, procVars>>
    \/ \E e \in held : Release(e) /\ UNCHANGED <<calls, sigVars, lifeVars, procVars>>
    \/ \E n \in 1..MaxCap : Reserve(n) /\ UNCHANGED <<calls, sigVars, lifeVars, procVars>>

Spec == Init /\ [][NextRcv]_vars

\* store.acquire_at(index, v) of an index inside the buffer that is not
\* occupied
AcquireAt(index, v) ==
    /\ Cardinality(held) < MaxHeld
    /\ index < capacity(store)
    /\ ~contains(store.current_, index)
    /\ store' = occupy(store, index, v)
    /\ held' = held \cup {[handle |-> index, value |-> v]}
    /\ ret' = [op |-> "acquire_at", handle |-> index, value |-> v,
               before |-> store.current_, cap |-> capacity(store)]

\* The caller of NextRcv, who also picks the index of a cell; a run is
\* followed up to the first call that breaks an assert of the store.
NextAcquireAt ==
    /\ ~store.failed
    /\ UNCHANGED <<calls, sigVars, lifeVars, procVars>>
    /\ \/ \E v \in Values : Acquire(v)
       \/ \E index \in 0..(MaxCap - 1), v \in Values : AcquireAt(index, v)
       \/ \E e \in held : Release(e)
       \/ \E n \in 1..MaxCap : Reserve(n)

SpecAcquireAt == Init /\ [][NextAcquireAt]_vars

\* The same caller, its calls recorded, stopping after MaxCalls calls.
NextCalls ==
    /\ Len(calls) < MaxCalls
    /\ UNCHANGED <<sigVars, lifeVars, procVars>>
    /\ \/ \E v \in Values : Acquire(v) /\ calls' = Append(calls, ret')
       \/ \E e \in held : Release(e) /\ calls' = Append(calls, ret')
       \/ \E n \in ReserveSizes : Reserve(n) /\ calls' = Append(calls, ret')

SpecCalls == Init /\ [][NextCalls]_vars

----------------------------------------------------------------------------
(* signal.hpp: the destructor of the signal, and the tokens after it *)

\* signal::~signal, line 89: body->signal = {} without the assignment.
null_body_skipped(token) == token

\* signal::~signal, line 89: cns_.get(handle)->body->signal = {}
null_body(token) == [token EXCEPT !.signal = Null]

\* signal::~signal. The body pointers of the occupied records are written
\* through: that of a live token nulls its back-reference, that of a destroyed
\* token is a write to an object that is gone. Then the deferred
\* disconnections are done, every handle copied at the start is put in
\* deferred_disconnect_ and they are done again; a handle in both rounds is
\* released twice. The members are destroyed last (cns_ is empty by then).
DestroySignal ==
    LET hs == Range(active_handles(cns_))
        bodies == {record_at(cns_, h).body : h \in hs}
        nulled == {t \in bodies : TokenAlive(t)}
        first == deferred_disconnect_
    IN  /\ ClientRuns
        /\ life.alive
        /\ tokens' = [t \in DOMAIN tokens |->
                         IF t \in nulled THEN null_body(tokens[t]) ELSE tokens[t]]
        /\ cns_' = release_all(release_all(cns_, first), hs)
        /\ deferred_disconnect_' = {}
        /\ to_disconnect_' = IF hs # {} THEN hs
                             ELSE IF first # {} THEN first ELSE to_disconnect_
        /\ life' = [life EXCEPT !.alive = FALSE,
                                !.at = Depth,
                                !.live = nulled,
                                !.once = (hs \cup first) \ (hs \cap first),
                                !.twice = hs \cap first,
                                !.dangling = \E t \in bodies : ~TokenAlive(t)]
        /\ UNCHANGED <<visiting_, stack, nconn, hist>>

\* t = std::move(r) for two tokens, cn::operator=(cn&&), once the signal is
\* gone: disconnect what t holds if its back-reference is set, take r's body
\* and handle, null r's body, and tell the signal of the new body if the
\* back-reference taken is set.
AssignToken(t, r) ==
    LET dis == tokens[t].signal # Null
        taken == tokens[r]
        d1 == IF dis /\ ~defers(visiting_) THEN release(cns_, tokens[t].handle) ELSE cns_
    IN  /\ ClientRuns
        /\ ~life.alive
        /\ t # r
        /\ tokens[t].alive
        /\ tokens[r].alive
        /\ deferred_disconnect_' =
              IF dis /\ defers(visiting_)
              THEN insert_deferred(deferred_disconnect_, tokens[t].handle)
              ELSE deferred_disconnect_
        /\ cns_' = IF taken.signal # Null THEN update(d1, taken.handle, t) ELSE d1
        /\ tokens' = [tokens EXCEPT ![t] = taken, ![r] = null_body(taken)]
        /\ life' = [life EXCEPT !.touched = @ \/ dis \/ taken.signal # Null]
        /\ UNCHANGED <<visiting_, to_disconnect_, stack, nconn, hist>>

\* The signal with its destructor. While it exists it is used as in
\* SpecSignal; ~signal may run wherever client code runs, inside a callback
\* too. After it the client no longer calls the signal, but the tokens are
\* still destroyed and assigned to, and the broadcasts that were in progress
\* run on: each turn of their loop reads deferred_disconnect_ and cns_, and
\* their exit writes visiting_.
NextDestroy ==
    \/ life.alive /\ nconn < MaxLifeConns /\ Connect /\ UNCHANGED <<rcvVars, procVars, lifeVars>>
    \/ \E t \in DOMAIN tokens :
          /\ DestroyToken(t)
          /\ life' = [life EXCEPT
                 !.touched = @ \/ (~life.alive /\ tokens[t].signal # Null)]
          /\ UNCHANGED <<rcvVars, procVars, other>>
    \/ \E t, r \in DOMAIN tokens : AssignToken(t, r) /\ UNCHANGED <<rcvVars, procVars, other>>
    \/ life.alive /\ Depth < MaxLifeDepth /\ Emit /\ UNCHANGED <<rcvVars, procVars, lifeVars>>
    \/ VisitNext /\ life' = [life EXCEPT !.uaf = @ \/ ~life.alive]
                 /\ UNCHANGED <<rcvVars, procVars, other>>
    \/ Return /\ UNCHANGED <<rcvVars, procVars, lifeVars>>
    \/ Exit /\ life' = [life EXCEPT !.uaf = @ \/ ~life.alive]
            /\ UNCHANGED <<rcvVars, procVars, other>>
    \/ DestroySignal /\ UNCHANGED <<rcvVars, procVars, other>>

SpecDestroy == Init /\ [][NextDestroy]_vars

----------------------------------------------------------------------------
(* signal.hpp: moving a signal *)

\* The value of cn_body::signal in a token of the second signal.
Other == "other"

\* unsafe_rcv(unsafe_rcv&&) = default: next_ is copied, buffer_ and current_
\* are taken.
move_construct(rhs) == rhs

\* unsafe_rcv::operator=(unsafe_rcv&&) = default: next_ is copied and
\* rcv_buffer::operator=(rcv_buffer&&) drops the old buffer without
\* destroying what its cells hold; nothing of lhs is kept.
move_assign(lhs, rhs) == rhs

\* What the move leaves in rhs: next_ as it was, rcv_buffer of size 0, an
\* empty current_.
moved_from(rhs) == [rhs EXCEPT !.buffer_ = <<>>, !.current_ = <<>>]

\* signal(signal&&), line 65 / operator=(signal&&), line 77, without the
\* assignment.
repoint_skipped(token) == token

\* signal(signal&&), line 65 / operator=(signal&&), line 77:
\* cns_.get(handle)->body->signal = this
repoint(token) == [token EXCEPT !.signal = This]

\* The first signal has not been used since its construction.
Unused ==
    /\ cns_ = EmptyStore
    /\ visiting_ = 0
    /\ deferred_disconnect_ = {}
    /\ to_disconnect_ = {}
    /\ \A t \in DOMAIN tokens : tokens[t].signal # This

\* cn c = other.connect(slot)
ConnectOther ==
    LET id == nconn + 1
        r == connect(other.cns_, id)
    IN  /\ ClientRuns
        /\ nconn < MaxConns
        /\ other.moved = "no"
        /\ other' = [other EXCEPT !.cns_ = update(r.store, r.handle, id)]
        /\ tokens' = Append(tokens, [alive |-> TRUE, signal |-> Other, handle |-> r.handle])
        /\ nconn' = id
        /\ hist' = Append(hist, [handle |-> r.handle, destroyed |-> "no"])
        /\ UNCHANGED <<cns_, visiting_, deferred_disconnect_, to_disconnect_, stack>>

\* cn::~cn of a token whose back-reference is the second signal:
\* signal::disconnect there.
DestroyTokenOther(t) ==
    /\ ClientRuns
    /\ tokens[t].alive
    /\ tokens[t].signal = Other
    /\ defers(other.visiting_) = FALSE
    /\ other' = [other EXCEPT !.cns_ = release(@, tokens[t].handle)]
    /\ tokens' = [tokens EXCEPT ![t].alive = FALSE]
    /\ hist' = [hist EXCEPT ![t].destroyed = "past"]
    /\ UNCHANGED <<cns_, visiting_, deferred_disconnect_, to_disconnect_, stack, nconn>>

\* The tokens the body pointers of the occupied records of store s point at.
Bodies(s) == {record_at(s, h).body : h \in Range(active_handles(s))}

\* What both moves do after taking cns_: every token a record points at gets
\* this signal as its back-reference (all of them are alive: the second
\* signal is never inside a broadcast, so none of its disconnections waits).
Moved(kind, taken) ==
    /\ cns_' = taken
    /\ tokens' = [t \in DOMAIN tokens |->
                     IF t \in Bodies(taken) THEN repoint(tokens[t]) ELSE tokens[t]]
    /\ other' = [other EXCEPT
                    !.cns_ = moved_from(@),
                    !.moved = kind,
                    !.sources = Bodies(taken),
                    !.old = {t \in DOMAIN tokens : tokens[t].alive /\ tokens[t].signal = This}]
    /\ UNCHANGED <<visiting_, deferred_disconnect_, to_disconnect_, stack, nconn, hist>>

\* signal s{std::move(other)}: the first signal comes into being by the move
\* (visiting_{0} and the two sets empty, as its member initialisers say).
MoveConstruct ==
    /\ Unused
    /\ other.moved = "no"
    /\ Moved("ctor", move_construct(other.cns_))

\* s = std::move(other), outside any broadcast
MoveAssign ==
    /\ Depth = 0
    /\ ~Unused
    /\ other.moved = "no"
    /\ Moved("assign", move_assign(cns_, other.cns_))

\* Two signals: both are connected to, the first is called, tokens of both
\* are destroyed, and once the first is move-constructed or move-assigned
\* from the second.
NextMove ==
    \/ Connect /\ UNCHANGED <<rcvVars, procVars, lifeVars>>
    \/ ConnectOther /\ UNCHANGED <<rcvVars, procVars, life>>
    \/ \E t \in DOMAIN tokens :
          tokens[t].signal # Other /\ DestroyToken(t) /\ UNCHANGED <<rcvVars, procVars, lifeVars>>
    \/ \E t \in DOMAIN tokens : DestroyTokenOther(t) /\ UNCHANGED <<rcvVars, procVars, life>>
    \/ MoveConstruct /\ UNCHANGED <<rcvVars, procVars, life>>
    \/ MoveAssign /\ UNCHANGED <<rcvVars, procVars, life>>
    \/ Depth < MaxLifeDepth /\ Emit /\ UNCHANGED <<rcvVars, procVars, lifeVars>>
    \/ VisitNext /\ UNCHANGED <<rcvVars, procVars, lifeVars>>
    \/ Return /\ UNCHANGED <<rcvVars, procVars, lifeVars>>
    \/ Exit /\ UNCHANGED <<rcvVars, procVars, lifeVars>>

SpecMove == Init /\ [][NextMove]_vars

----------------------------------------------------------------------------
(* item_processor.hpp: the lock-free processor, may_allocate_on_process *)

\* The initial sizes make_pusher is called with.
InitialSizes == {0, 1}

\* The builds: with _DEBUG defined or not.
Builds == {"debug", "release"}

\* moodycamel_rwq(max_size): a queue that takes max_size items without
\* allocating.
QueueImpl(max_size) == [max |-> max_size, items |-> <<>>]

\* moodycamel_rwq(): impl_{2}
DefaultQueueImpl == QueueImpl(2)

\* moodycamel_rwq::get_size_approx
get_size_approx(q) == Len(q.items)

\* moodycamel_rwq::push_may_not_allocate: with _DEBUG a push onto a full
\* queue does not enqueue and fails the assert; without it the queue
\* allocates. ok is whether the assert held.
push_may_not_allocate(q, value, build) ==
    IF build = "debug" /\ Len(q.items) >= q.max
    THEN [queue |-> q, ok |-> FALSE]
    ELSE [queue |-> [q EXCEPT !.items = Append(@, value)], ok |-> TRUE]

\* lock_free_queue_may_allocate_on_process(initial_size). queue_pair_[k] of
\* the source is queue_pair_[k + 1] here.
lock_free_queue(initial_size) ==
    [size_ |-> initial_size,
     queue_pair_ |-> <<QueueImpl(initial_size), DefaultQueueImpl>>,
     push_index_ |-> 0]

\* process_all, line 274: the test that makes the queue grow, and one that
\* does so already at half the size.
grows_at_half(q) == get_size_approx(q.queue_pair_[q.push_index_ + 1]) >= q.size_ \div 2

grows(q) == get_size_approx(q.queue_pair_[q.push_index_ + 1]) > q.size_ \div 2

\* process_all, lines 276-279, with the new queue put where the items are.
grow_in_place(q) ==
    [q EXCEPT !.size_ = 2 * @,
              !.queue_pair_[q.push_index_ + 1] = QueueImpl(2 * q.size_)]

\* process_all, lines 276-279: double size_, put a new queue of that size in
\* the other place of the pair, make that place the one pushed to.
grow(q) ==
    [q EXCEPT !.size_ = 2 * @,
              !.queue_pair_[2 - q.push_index_] = QueueImpl(2 * q.size_),
              !.push_index_ = 1 - @]

\* lock_free_pusher_body(index, initial_size); id tells the bodies apart as
\* their addresses do.
pusher_body(id, index, initial_size) ==
    [id |-> id, index |-> index, q |-> lock_free_queue(initial_size)]

\* std::vector::erase(begin() + index)
EraseAt(seq, index) == SubSeq(seq, 1, index) \o SubSeq(seq, index + 2, Len(seq))

\* The loops at 333-338 and 358-363: index = 0; pusher->index = index++
Reindex(seq) == [k \in DOMAIN seq |-> [seq[k] EXCEPT !.index = k - 1]]

\* The places of body id in a vector of bodies.
Places(seq, id) == {k \in DOMAIN seq : seq[k].id = id}

\* The body with that id, wherever it is kept; none when it was destroyed.
BodyOf(id) ==
    IF Places(pushers_, id) # {}
    THEN <<pushers_[CHOOSE k \in Places(pushers_, id) : TRUE]>>
    ELSE IF Places(deferred_add_, id) # {}
    THEN <<deferred_add_[CHOOSE k \in Places(deferred_add_, id) : TRUE]>>
    ELSE <<>>

\* A vector of bodies after value went into queue_pair_[idx] of body id.
PushedInto(seq, id, idx, value) ==
    [k \in DOMAIN seq |->
        IF seq[k].id = id
        THEN [seq[k] EXCEPT !.q.queue_pair_[idx + 1] =
                  push_may_not_allocate(@, value, tally.build).queue]
        ELSE seq[k]]

\* Client code may run on the consumer thread: outside process_all, or
\* inside the processor function.
CanCall == consumer.state \in {"idle", "cb"}

\* pusher = processor.make_pusher(initial_size), for a program that makes
\* at most so many pushers; the first call also fixes the build the program
\* was made with.
MakePusherOf(initial_size, build, most) ==
    LET id == Len(pusher) + 1
        body == pusher_body(id, Len(pushers_), initial_size)
    IN  /\ CanCall
        /\ Len(pusher) < most
        /\ tally.build \in {"unset", build}
        /\ IF processing_
           THEN deferred_add_' = Append(deferred_add_, body) /\ UNCHANGED pushers_
           ELSE pushers_' = Append(pushers_, body) /\ UNCHANGED deferred_add_
        /\ pusher' = Append(pusher, [processor_ |-> TRUE, body_ |-> id])
        /\ tally' = [tally EXCEPT !.build = build]
        /\ UNCHANGED <<deferred_remove_, processing_, consumer, producer>>

\* The same for a program that makes at most MaxPushers pushers.
MakePusher(initial_size, build) == MakePusherOf(initial_size, build, MaxPushers)

\* The enqueue of lock_free_queue_may_allocate_on_process::push into
\* queue_pair_[idx] of the body of pusher p. A body that was destroyed is
\* written after its lifetime.
Enqueue(p, idx, value) ==
    LET b == BodyOf(pusher[p].body_)
    IN  IF b = <<>>
        THEN /\ tally' = [tally EXCEPT !.ub = TRUE, !.dirty = TRUE]
             /\ UNCHANGED <<pushers_, deferred_add_>>
        ELSE /\ pushers_' = PushedInto(pushers_, b[1].id, idx, value)
             /\ deferred_add_' = PushedInto(deferred_add_, b[1].id, idx, value)
             /\ tally' = [tally EXCEPT
                    !.done = @ \cup {value.id},
                    !.dirty = TRUE,
                    !.failed = @ \/ ~push_may_not_allocate(
                        b[1].q.queue_pair_[idx + 1], value, tally.build).ok]

\* pusher.push(item) as one step: nothing when the pusher has no processor,
\* else the item goes into the queue push_index_ names.
Push(p) ==
    LET b == BodyOf(pusher[p].body_)
        value == [id |-> tally.nitems + 1, by |-> p]
    IN  /\ CanCall
        /\ producer.state = "idle"
        /\ tally.nitems < MaxItems
        /\ IF ~pusher[p].processor_
           THEN UNCHANGED <<pushers_, deferred_add_, tally>>
           ELSE IF b = <<>>
           THEN /\ tally' = [tally EXCEPT !.ub = TRUE]
                /\ UNCHANGED <<pushers_, deferred_add_>>
           ELSE /\ pushers_' = PushedInto(pushers_, b[1].id, b[1].q.push_index_, value)
                /\ deferred_add_' = PushedInto(deferred_add_, b[1].id, b[1].q.push_index_, value)
                /\ tally' = [tally EXCEPT
                       !.nitems = @ + 1,
                       !.done = @ \cup {value.id},
                       !.dirty = TRUE,
                       !.failed = @ \/ ~push_may_not_allocate(
                           b[1].q.queue_pair_[b[1].q.push_index_ + 1], value,
                           tally.build).ok]
        /\ UNCHANGED <<deferred_remove_, processing_, pusher, consumer, producer>>

\* pusher.push(item) on a producer thread, first half: the pusher has a
\* processor and push_index_ is read.
PushRead(p) ==
    LET b == BodyOf(pusher[p].body_)
    IN  /\ producer.state = "idle"
        /\ tally.nitems < MaxItems
        /\ pusher[p].processor_
        /\ b # <<>>
        /\ producer' = [state |-> "read", p |-> p, idx |-> b[1].q.push_index_,
                        item |-> tally.nitems + 1]
        /\ tally' = [tally EXCEPT !.nitems = @ + 1]
        /\ UNCHANGED <<pushers_, deferred_add_, deferred_remove_, processing_,
                       pusher, consumer>>

\* Second half: push_may_not_allocate on the queue the index read names.
PushEnqueue ==
    /\ producer.state = "read"
    /\ Enqueue(producer.p, producer.idx, [id |-> producer.item, by |-> producer.p])
    /\ producer' = NoPush
    /\ UNCHANGED <<deferred_remove_, processing_, pusher, consumer>>

\* lock_free_processor::release_pusher
release_pusher(index) ==
    IF processing_
    THEN /\ deferred_remove_' = Append(deferred_remove_, index)
         /\ UNCHANGED pushers_
    ELSE /\ pushers_' = IF index < Len(pushers_)
                        THEN Reindex(EraseAt(pushers_, index)) ELSE pushers_
         /\ UNCHANGED deferred_remove_

\* lock_free_pusher::release, and ~lock_free_pusher of a pusher that has a
\* processor: release_pusher(body_->index), processor_ = {}. An index
\* outside pushers_ makes the erase at 330 undefined.
ReleasePusher(p) ==
    LET b == BodyOf(pusher[p].body_)
    IN  /\ CanCall
        /\ pusher[p].processor_
        /\ b # <<>>
        /\ release_pusher(b[1].index)
        /\ pusher' = [pusher EXCEPT ![p].processor_ = FALSE]
        /\ tally' = [tally EXCEPT
               !.released = @ \cup {p},
               !.ub = @ \/ (~processing_ /\ b[1].index >= Len(pushers_))]
        /\ UNCHANGED <<deferred_add_, processing_, consumer, producer>>

\* lock_free_processor::process_all, line 346
ProcessAllBegin ==
    /\ consumer.state = "idle"
    /\ processing_' = TRUE
    /\ consumer' = [Idle EXCEPT !.state = "next", !.i = 1]
    /\ tally' = [tally EXCEPT !.dirty = FALSE]
    /\ UNCHANGED <<pushers_, deferred_add_, deferred_remove_, pusher, producer>>

\* lock_free_queue_may_allocate_on_process::process_all, lines 272-285, for
\* the next pusher of the loop at 348: read push_index_, grow if the test
\* says so; the queue to drain first is the one pushed to before.
QueueProcessAll ==
    /\ consumer.state = "next"
    /\ consumer.i <= Len(pushers_)
    /\ LET q == pushers_[consumer.i].q
       IN  IF grows(q)
           THEN /\ pushers_' = [pushers_ EXCEPT ![consumer.i].q = grow(q)]
                /\ consumer' = [consumer EXCEPT !.state = "drain",
                                   !.buf = q.push_index_,
                                   !.active = 1 - q.push_index_,
                                   !.last = FALSE, !.grew = TRUE]
           ELSE /\ UNCHANGED pushers_
                /\ consumer' = [consumer EXCEPT !.state = "drain",
                                   !.buf = q.push_index_,
                                   !.active = q.push_index_,
                                   !.last = TRUE, !.grew = FALSE]
    /\ UNCHANGED <<deferred_add_, deferred_remove_, processing_, pusher, producer, tally>>

\* process_all(processor, q), lines 260-267, one turn: pop; an item popped
\* is handed to the processor function; an empty queue ends the loop, and
\* then the active queue is drained, or the next pusher is gone to.
Pop ==
    /\ consumer.state = "drain"
    /\ LET items == pushers_[consumer.i].q.queue_pair_[consumer.buf + 1].items
       IN  IF items = <<>>
           THEN /\ consumer' = IF consumer.last
                               THEN [Idle EXCEPT !.state = "next", !.i = consumer.i + 1]
                               ELSE [consumer EXCEPT !.buf = consumer.active,
                                                     !.last = TRUE]
                /\ UNCHANGED <<pushers_, tally>>
           ELSE /\ pushers_' = [pushers_ EXCEPT
                       ![consumer.i].q.queue_pair_[consumer.buf + 1].items = Tail(@)]
                /\ consumer' = [consumer EXCEPT !.state = "cb",
                                                !.item = Head(items).id]
                /\ tally' = [tally EXCEPT !.processed = Append(@,
                       [id |-> Head(items).id, by |-> Head(items).by,
                        stale |-> Head(items).by \in tally.released])]
    /\ UNCHANGED <<deferred_add_, deferred_remove_, processing_, pusher, producer>>

\* The processor function returns.
CallbackReturn ==
    /\ consumer.state = "cb"
    /\ consumer' = [consumer EXCEPT !.state = "drain", !.item = 0]
    /\ UNCHANGED <<pushers_, deferred_add_, deferred_remove_, processing_, pusher,
                   producer, tally>>

\* The loop at 355-358 for i from the last index down to 0: erase
\* pushers_[deferred_remove_[i]]; oob when an index is outside pushers_.
RECURSIVE erase_deferred(_, _, _)
erase_deferred(vec, removes, i) ==
    IF i = 0 THEN [vec |-> vec, oob |-> FALSE]
    ELSE IF removes[i] >= Len(vec) THEN [vec |-> vec, oob |-> TRUE]
    ELSE erase_deferred(EraseAt(vec, removes[i]), removes, i - 1)

\* lock_free_processor::process_all, lines 353-376. With nothing in
\* deferred_remove_ the bodies made meanwhile are added and the call
\* returns. Otherwise the loop at 355 erases the bodies named, but its
\* condition i >= 0 holds for every size_t: after i = 0 it reads
\* deferred_remove_[SIZE_MAX] and erases at whatever it finds, with no end.
\* The call does not return; what it erased beyond the bodies named is any
\* one more body or none.
ProcessAllEnd ==
    /\ consumer.state = "next"
    /\ consumer.i > Len(pushers_)
    /\ IF deferred_remove_ = <<>>
       THEN /\ pushers_' = pushers_ \o deferred_add_
            /\ deferred_add_' = <<>>
            /\ processing_' = FALSE
            /\ consumer' = Idle
            /\ tally' = [tally EXCEPT !.ran = TRUE]
            /\ UNCHANGED deferred_remove_
       ELSE LET erased == erase_deferred(pushers_, deferred_remove_, Len(deferred_remove_))
            IN  /\ \E k \in 0..Len(erased.vec) :
                      pushers_' = IF k = 0 THEN erased.vec ELSE EraseAt(erased.vec, k - 1)
                /\ consumer' = [Idle EXCEPT !.state = "stuck"]
                /\ tally' = [tally EXCEPT !.ub = TRUE]
                /\ UNCHANGED <<deferred_add_, deferred_remove_, processing_>>
    /\ UNCHANGED <<pusher, producer>>

\* Everything but the lock-free processor.
notLockFree == <<moreVars, svVars, rcvVars, sigVars, lifeVars, lkVars, srVars, tkVars>>

\* The lock-free processor used from the consumer thread alone: pushers are
\* made, pushed through and released outside process_all and from inside
\* the processor function.
NextLockFree ==
    \/ \E n \in InitialSizes, b \in Builds : MakePusher(n, b) /\ UNCHANGED notLockFree
    \/ \E p \in DOMAIN pusher : Push(p) /\ UNCHANGED notLockFree
    \/ \E p \in DOMAIN pusher : ReleasePusher(p) /\ UNCHANGED notLockFree
    \/ ProcessAllBegin /\ UNCHANGED notLockFree
    \/ QueueProcessAll /\ UNCHANGED notLockFree
    \/ Pop /\ UNCHANGED notLockFree
    \/ CallbackReturn /\ UNCHANGED notLockFree
    \/ ProcessAllEnd /\ UNCHANGED notLockFree

SpecLockFree == Init /\ [][NextLockFree]_vars

\* The same with a consumer thread that keeps running and a processor
\* function that returns: every step of process_all that can be taken is
\* taken in the end.
SpecLockFreeFair ==
    /\ Init
    /\ [][NextLockFree]_vars
    /\ WF_vars(QueueProcessAll /\ UNCHANGED notLockFree)
    /\ WF_vars(Pop /\ UNCHANGED notLockFree)
    /\ WF_vars(CallbackReturn /\ UNCHANGED notLockFree)
    /\ WF_vars(ProcessAllEnd /\ UNCHANGED notLockFree)

\* A program that makes more pushers and pushes less: the pushers it makes
\* and the items it pushes.
MaxAdded == 3
MaxAddItems == 1

\* The lock-free processor used from the consumer thread alone, with up to
\* MaxAdded pushers made outside process_all and from inside the processor
\* function.
NextLockFreeAdds ==
    \/ \E n \in InitialSizes, b \in Builds :
          MakePusherOf(n, b, MaxAdded) /\ UNCHANGED notLockFree
    \/ \E p \in DOMAIN pusher :
          tally.nitems < MaxAddItems /\ Push(p) /\ UNCHANGED notLockFree
    \/ \E p \in DOMAIN pusher : ReleasePusher(p) /\ UNCHANGED notLockFree
    \/ ProcessAllBegin /\ UNCHANGED notLockFree
    \/ QueueProcessAll /\ UNCHANGED notLockFree
    \/ Pop /\ UNCHANGED notLockFree
    \/ CallbackReturn /\ UNCHANGED notLockFree
    \/ ProcessAllEnd /\ UNCHANGED notLockFree

SpecLockFreeAdds == Init /\ [][NextLockFreeAdds]_vars

\* The lock_free_pusher objects a program holds at a time.
MaxObjects == 3

\* lock_free_pusher b{std::move(a)}: the new pusher takes processor_ and
\* body_ of a, a is left without a processor.
PusherMoveConstruct(rhs) ==
    /\ consumer.state = "idle"
    /\ Len(pusher) < MaxObjects
    /\ rhs \notin destroyed
    /\ pusher' = Append([pusher EXCEPT ![rhs].processor_ = FALSE], pusher[rhs])
    /\ UNCHANGED <<pushers_, deferred_add_, deferred_remove_, processing_, consumer,
                   producer, tally, destroyed>>

\* a = std::move(b), lock_free_pusher::operator=: processor_ and body_ of a
\* are overwritten with those of b, then b is left without a processor.
PusherMoveAssign(lhs, rhs) ==
    /\ consumer.state = "idle"
    /\ lhs \notin destroyed
    /\ rhs \notin destroyed
    /\ pusher' = [[pusher EXCEPT ![lhs] = pusher[rhs]] EXCEPT ![rhs].processor_ = FALSE]
    /\ UNCHANGED <<pushers_, deferred_add_, deferred_remove_, processing_, consumer,
                   producer, tally, destroyed>>

\* ~lock_free_pusher: release() when the pusher has a processor, nothing
\* otherwise.
PusherDestroy(p) ==
    /\ consumer.state = "idle"
    /\ p \notin destroyed
    /\ IF pusher[p].processor_
       THEN ReleasePusher(p)
       ELSE UNCHANGED lfVars
    /\ destroyed' = destroyed \cup {p}

notPushers == <<walk, mgr, ur, svVars, rcvVars, sigVars, lifeVars, lkVars, srVars, tkVars>>

\* Pushers of a lock-free processor made, moved, released and destroyed on
\* the consumer thread between process_all calls.
NextPushers ==
    \/ \E n \in InitialSizes, b \in Builds :
          MakePusher(n, b) /\ UNCHANGED <<destroyed, notPushers>>
    \/ \E p \in DOMAIN pusher :
          p \notin destroyed /\ ReleasePusher(p) /\ UNCHANGED <<destroyed, notPushers>>
    \/ \E rhs \in DOMAIN pusher : PusherMoveConstruct(rhs) /\ UNCHANGED notPushers
    \/ \E lhs, rhs \in DOMAIN pusher : PusherMoveAssign(lhs, rhs) /\ UNCHANGED notPushers
    \/ \E p \in DOMAIN pusher : PusherDestroy(p) /\ UNCHANGED notPushers

SpecPushers == Init /\ [][NextPushers]_vars

\* A producer thread pushing while the consumer thread processes: a push is
\* two steps, and any step of process_all may come between them.
NextLockFreeRace ==
    \/ \E n \in InitialSizes, b \in Builds : MakePusher(n, b) /\ UNCHANGED notLockFree
    \/ \E p \in DOMAIN pusher : PushRead(p) /\ UNCHANGED notLockFree
    \/ PushEnqueue /\ UNCHANGED notLockFree
    \/ ProcessAllBegin /\ UNCHANGED notLockFree
    \/ QueueProcessAll /\ UNCHANGED notLockFree
    \/ Pop /\ UNCHANGED notLockFree
    \/ CallbackReturn /\ UNCHANGED notLockFree
    \/ ProcessAllEnd /\ UNCHANGED notLockFree

SpecLockFreeRace == Init /\ [][NextLockFreeRace]_vars

----------------------------------------------------------------------------
(* item_processor.hpp: the locking processor *)

\* What std::mutex::lock does when the calling thread already owns the
\* mutex is undefined: the call may never return, may throw
\* std::system_error, or may return as if the mutex had been free.
RelockOutcomes == {"deadlock", "throw", "proceed"}

\* The calls made through a locking_pusher.
PusherOps == {"push", "release"}

\* A cell of a stable_vector holding a value, with its links.
sv_cell(prev, next, value) ==
    [prev |-> prev, next |-> next, live |-> TRUE, value |-> value]

\* stable_vector::push_back: a new last cell, linked after the one before
\* it. Cells are numbered from 0, cells_[k + 1] is cell k.
sv_push_back(sv, value) ==
    LET pos == sv.position_
        prev == pos - 1
        linked == IF prev >= 0
                  THEN [sv.cells_ EXCEPT ![prev + 1].next = pos]
                  ELSE sv.cells_
    IN  [sv EXCEPT !.cells_ = Append(linked, sv_cell(prev, -1, value)),
                   !.front_ = IF prev >= 0 THEN sv.front_ ELSE pos,
                   !.back_ = pos,
                   !.position_ = pos + 1,
                   !.size_ = sv.size_ + 1]

\* An erase that leaves front_ as it was.
sv_erase_front_kept(sv, index) ==
    LET info == sv.cells_[index + 1]
        gone == [sv.cells_ EXCEPT ![index + 1].live = FALSE,
                                  ![index + 1].value = <<>>]
        fwd == IF info.prev >= 0
               THEN [gone EXCEPT ![info.prev + 1].next = info.next]
               ELSE gone
        bwd == IF info.next >= 0
               THEN [fwd EXCEPT ![info.next + 1].prev = info.prev]
               ELSE fwd
    IN  [sv EXCEPT !.cells_ = bwd,
                   !.back_ = IF info.next >= 0 THEN sv.back_ ELSE info.prev,
                   !.position_ = IF index < sv.position_ THEN index ELSE sv.position_,
                   !.size_ = sv.size_ - 1]

\* An erase that also clears the links of the erased cell.
sv_erase_links_cleared(sv, index) ==
    LET out == sv_erase_front_kept(sv, index)
        info == sv.cells_[index + 1]
    IN  [out EXCEPT !.front_ = IF info.prev >= 0 THEN sv.front_ ELSE info.next,
                    !.cells_[index + 1].prev = -1,
                    !.cells_[index + 1].next = -1]

\* stable_vector::erase(index): the value is destroyed, the neighbours are
\* linked to each other, the links of the cell itself stay as they were.
sv_erase(sv, index) ==
    LET info == sv.cells_[index + 1]
        gone == [sv.cells_ EXCEPT ![index + 1].live = FALSE,
                                  ![index + 1].value = <<>>]
        fwd == IF info.prev >= 0
               THEN [gone EXCEPT ![info.prev + 1].next = info.next]
               ELSE gone
        bwd == IF info.next >= 0
               THEN [fwd EXCEPT ![info.next + 1].prev = info.prev]
               ELSE fwd
    IN  [sv EXCEPT !.cells_ = bwd,
                   !.front_ = IF info.prev >= 0 THEN sv.front_ ELSE info.next,
                   !.back_ = IF info.next >= 0 THEN sv.back_ ELSE info.prev,
                   !.position_ = IF index < sv.position_ THEN index ELSE sv.position_,
                   !.size_ = sv.size_ - 1]

\* queue::process_all, queue_ after const auto queue{std::move(queue_)}
\* and queue_.clear(), had the items stayed.
queue_kept(q) == q

\* queue::process_all, queue_ after const auto queue{std::move(queue_)}
\* and queue_.clear(): empty.
queue_cleared(q) == <<>>

\* locking_processor::push below its lock: queues_[handle].push(item), which
\* takes the mutex of the queue, appends and releases it.
locking_push(sv, handle, item) ==
    [sv EXCEPT !.cells_[handle + 1].value = Append(@, item)]

\* locking_processor::release below its lock: queues_.erase(handle).
locking_release(sv, handle) == sv_erase(sv, handle)

\* What a call through a pusher does to queues_ once mutex_ is locked.
Performed(op, h, item) ==
    IF op = "push" THEN locking_push(queues_, h, item) ELSE locking_release(queues_, h)

\* The pushers held and the items pushed after the call: release() clears
\* processor_ of the pusher, a push adds an item.
Recorded(op, h) ==
    IF op = "push"
    THEN [lk EXCEPT !.nitems = @ + 1, !.via = Append(@, h)]
    ELSE [lk EXCEPT !.held = @ \ {h}]

\* The pusher with handle h may be called: it has its processor_, the
\* producer thread is not using it, and the items are not used up.
Callable(op, h) ==
    /\ h \in lk.held
    /\ ~(pthread.pc = "waiting" /\ pthread.h = h)
    /\ op = "push" => lk.nitems < MaxLkItems

\* The consumer thread outside every call on the processor.
ConsumerIdle == [pc |-> "idle", it |-> -1, queue |-> <<>>]

\* The producer thread outside every call on a pusher.
ProducerIdle == [pc |-> "idle", op |-> "none", h |-> 0, item |-> 0]

\* locking_processor::make_pusher, called on the consumer thread between
\* other calls: lock, queues_.add(queue{}), unlock. Pushers are made while
\* add takes the push_back path (position_ == cells_.size()), that is
\* before any pusher is released.
LockingMakePusher ==
    /\ cthread.pc = "idle"
    /\ mutex_ = "none"
    /\ Len(queues_.cells_) < MaxQueues
    /\ queues_.position_ = Len(queues_.cells_)
    /\ queues_' = sv_push_back(queues_, <<>>)
    /\ lk' = [lk EXCEPT !.held = @ \cup {queues_.position_}]
    /\ UNCHANGED <<mutex_, cthread, pthread>>

\* locking_pusher::push or release called on the consumer thread between
\* other calls: the lock is free, the call locks, acts and unlocks.
LockingCall(op, h) ==
    /\ cthread.pc = "idle"
    /\ mutex_ = "none"
    /\ Callable(op, h)
    /\ queues_' = Performed(op, h, lk.nitems + 1)
    /\ lk' = Recorded(op, h)
    /\ UNCHANGED <<mutex_, cthread, pthread>>

\* A producer thread calls push or release on a pusher and arrives at
\* std::unique_lock lock{mutex_}.
ProducerCall(op, h) ==
    /\ pthread.pc = "idle"
    /\ Callable(op, h)
    /\ pthread' = [pc |-> "waiting", op |-> op, h |-> h,
                   item |-> IF op = "push" THEN lk.nitems + 1 ELSE 0]
    /\ lk' = IF op = "push" THEN Recorded(op, h) ELSE lk
    /\ UNCHANGED <<queues_, mutex_, cthread>>

\* The producer thread gets mutex_, acts and unlocks.
ProducerAcquire ==
    /\ pthread.pc = "waiting"
    /\ mutex_ = "none"
    /\ queues_' = Performed(pthread.op, pthread.h, pthread.item)
    /\ lk' = IF pthread.op = "release" THEN [lk EXCEPT !.held = @ \ {pthread.h}] ELSE lk
    /\ pthread' = ProducerIdle
    /\ UNCHANGED <<mutex_, cthread>>

\* locking_processor::process_all: std::unique_lock lock{mutex_}, and the
\* loop over queues_ starts at begin().
LockingProcessAllBegin ==
    /\ cthread.pc = "idle"
    /\ mutex_ = "none"
    /\ mutex_' = "consumer"
    /\ cthread' = [pc |-> "loop", it |-> queues_.front_, queue |-> <<>>]
    /\ UNCHANGED <<queues_, pthread, lk>>

\* queue::process_all up to lock.unlock(): the mutex of the queue is taken,
\* the items are moved to a local vector, queue_ is cleared, the mutex of
\* the queue is released. A cell erased meanwhile holds no queue.
QueueTake ==
    /\ cthread.pc = "loop"
    /\ cthread.it >= 0
    /\ LET cell == queues_.cells_[cthread.it + 1]
       IN  /\ cthread' = [cthread EXCEPT !.pc = "drain", !.queue = cell.value]
           /\ queues_' = [queues_ EXCEPT !.cells_[cthread.it + 1].value =
                                              queue_cleared(cell.value)]
           /\ lk' = [lk EXCEPT !.ub = @ \/ ~cell.live]
    /\ UNCHANGED <<mutex_, pthread>>

\* queue::process_all: processor(std::move(item)) is called for the next
\* item of the local vector.
CallProcessor ==
    /\ cthread.pc = "drain"
    /\ cthread.queue # <<>>
    /\ cthread' = [cthread EXCEPT !.pc = "cb"]
    /\ lk' = [lk EXCEPT !.processed = Append(@, Head(cthread.queue))]
    /\ UNCHANGED <<queues_, mutex_, pthread>>

\* The processor function returns.
ProcessorReturn ==
    /\ cthread.pc = "cb"
    /\ cthread' = [cthread EXCEPT !.pc = "drain", !.queue = Tail(@)]
    /\ UNCHANGED <<queues_, mutex_, pthread, lk>>

\* queue::process_all returns, the loop of locking_processor::process_all
\* steps to the next queue.
NextQueue ==
    /\ cthread.pc = "drain"
    /\ cthread.queue = <<>>
    /\ cthread' = [cthread EXCEPT !.pc = "loop",
                                  !.it = queues_.cells_[cthread.it + 1].next]
    /\ UNCHANGED <<queues_, mutex_, pthread, lk>>

\* locking_processor::process_all returns: the lock object unlocks mutex_,
\* which the thread no longer owns if a call from the processor function
\* has unlocked it.
LockingProcessAllEnd ==
    /\ cthread.pc = "loop"
    /\ cthread.it = -1
    /\ cthread' = ConsumerIdle
    /\ mutex_' = "none"
    /\ lk' = [lk EXCEPT !.ub = @ \/ mutex_ # "consumer"]
    /\ UNCHANGED <<queues_, pthread>>

\* locking_pusher::push or release called from inside the processor
\* function. The call locks mutex_, which process_all has locked on this
\* same thread: the thread stops for ever, or the lock throws and the
\* exception leaves process_all, or the call goes through and its lock
\* object unlocks the mutex process_all still relies on.
CallbackCall(op, h, outcome) ==
    /\ cthread.pc = "cb"
    /\ Callable(op, h)
    /\ IF mutex_ = "consumer"
       THEN CASE outcome = "deadlock" ->
                   /\ cthread' = [cthread EXCEPT !.pc = "blocked"]
                   /\ UNCHANGED <<queues_, mutex_, lk>>
              [] outcome = "throw" ->
                   /\ cthread' = ConsumerIdle
                   /\ mutex_' = "none"
                   /\ lk' = [lk EXCEPT !.threw = TRUE]
                   /\ UNCHANGED queues_
              [] outcome = "proceed" ->
                   /\ queues_' = Performed(op, h, lk.nitems + 1)
                   /\ mutex_' = "none"
                   /\ lk' = [Recorded(op, h) EXCEPT !.ub = TRUE]
                   /\ UNCHANGED cthread
       ELSE /\ outcome = "proceed"
            /\ queues_' = Performed(op, h, lk.nitems + 1)
            /\ lk' = Recorded(op, h)
            /\ UNCHANGED <<mutex_, cthread>>
    /\ UNCHANGED pthread

\* Everything but the locking processor.
notLocking == <<moreVars, svVars, rcvVars, sigVars, lifeVars, lfVars, srVars, tkVars>>

\* The locking processor with its consumer thread and one producer thread.
NextLocking ==
    \/ LockingMakePusher /\ UNCHANGED notLocking
    \/ \E op \in PusherOps, h \in 0..(MaxQueues - 1) : LockingCall(op, h) /\ UNCHANGED notLocking
    \/ \E op \in PusherOps, h \in 0..(MaxQueues - 1) : ProducerCall(op, h) /\ UNCHANGED notLocking
    \/ ProducerAcquire /\ UNCHANGED notLocking
    \/ LockingProcessAllBegin /\ UNCHANGED notLocking
    \/ QueueTake /\ UNCHANGED notLocking
    \/ CallProcessor /\ UNCHANGED notLocking
    \/ ProcessorReturn /\ UNCHANGED notLocking
    \/ NextQueue /\ UNCHANGED notLocking
    \/ LockingProcessAllEnd /\ UNCHANGED notLocking
    \/ \E op \in PusherOps, h \in 0..(MaxQueues - 1), outcome \in RelockOutcomes :
          CallbackCall(op, h, outcome) /\ UNCHANGED notLocking

SpecLocking == Init /\ [][NextLocking]_vars

\* The locking processor with calls made between process_all calls on the
\* consumer thread and by a producer thread at any time, none from inside
\* the processor function.
NextLockingThreads ==
    \/ LockingMakePusher /\ UNCHANGED notLocking
    \/ \E op \in PusherOps, h \in 0..(MaxQueues - 1) : LockingCall(op, h) /\ UNCHANGED notLocking
    \/ \E op \in PusherOps, h \in 0..(MaxQueues - 1) : ProducerCall(op, h) /\ UNCHANGED notLocking
    \/ ProducerAcquire /\ UNCHANGED notLocking
    \/ LockingProcessAllBegin /\ UNCHANGED notLocking
    \/ QueueTake /\ UNCHANGED notLocking
    \/ CallProcessor /\ UNCHANGED notLocking
    \/ ProcessorReturn /\ UNCHANGED notLocking
    \/ NextQueue /\ UNCHANGED notLocking
    \/ LockingProcessAllEnd /\ UNCHANGED notLocking

SpecLockingThreads == Init /\ [][NextLockingThreads]_vars

----------------------------------------------------------------------------
(* item_processor.hpp: the serial processor *)

\* The items a client pushes are numbered in the order they are pushed. T
\* converts to bool: the item n converts to true and the item -n to false,
\* as does 0, which stands for T{}.
truthy(item) == item > 0

\* serial_processor::slot::item_vector with nothing in it.
EmptyItemVector == [items_ |-> <<>>, indexed_items_ |-> <<>>, indices_ |-> <<>>]

\* item_vector::clear: the number of items dropped is items_.size() +
\* indices_.size().
iv_clear(v) == [vec |-> EmptyItemVector, out |-> Len(v.items_) + Len(v.indices_)]

\* A push that puts the item in front of those already there.
iv_push_front(v, item) == [vec |-> [v EXCEPT !.items_ = <<item>> \o @], out |-> 1]

\* item_vector::push(item).
iv_push(v, item) == [vec |-> [v EXCEPT !.items_ = Append(@, item)], out |-> 1]

\* indexed_items_.resize(index + 1): the new elements are T{}.
iv_resized(seq, index) ==
    IF Len(seq) <= index
    THEN seq \o [k \in 1..(index + 1 - Len(seq)) |-> 0]
    ELSE seq

\* item_vector::push(item, index), had the item pushed last replaced the
\* one already at the index.
iv_push_indexed_last(v, item, index) ==
    LET sized == iv_resized(v.indexed_items_, index)
    IN  IF truthy(sized[index + 1])
        THEN [vec |-> [v EXCEPT !.indexed_items_ = [sized EXCEPT ![index + 1] = item]],
              out |-> 0]
        ELSE [vec |-> [v EXCEPT !.indexed_items_ = [sized EXCEPT ![index + 1] = item],
                                !.indices_ = Append(@, index)],
              out |-> 1]

\* item_vector::push(item, index): nothing is pushed when the element at
\* the index converts to true.
iv_push_indexed(v, item, index) ==
    LET sized == iv_resized(v.indexed_items_, index)
    IN  IF truthy(sized[index + 1])
        THEN [vec |-> [v EXCEPT !.indexed_items_ = sized], out |-> 0]
        ELSE [vec |-> [v EXCEPT !.indexed_items_ = [sized EXCEPT ![index + 1] = item],
                                !.indices_ = Append(@, index)],
              out |-> 1]

\* serial_processor::slot after slot{}.
EmptySlot ==
    [processing_ |-> FALSE, total_items_ |-> 0, items_ |-> EmptyItemVector,
     pushed_while_processing_ |-> EmptyItemVector]

\* slot::clear.
slot_clear(s) ==
    [slot |-> [s EXCEPT !.total_items_ = 0, !.items_ = EmptyItemVector,
                        !.pushed_while_processing_ = EmptyItemVector],
     out |-> iv_clear(s.items_).out + iv_clear(s.pushed_while_processing_).out]

\* slot::is_empty.
is_empty(s) == s.total_items_ <= 0

\* slot::is_processing.
is_processing(s) == s.processing_

\* slot::push, had it pushed to items_ whether the slot is processing or
\* not.
slot_pushed_unbuffered(s, r_while, r_items) ==
    [slot |-> [s EXCEPT !.items_ = r_items.vec,
                        !.total_items_ = @ + r_items.out],
     out |-> r_items.out]

\* slot::push(item) and slot::push(item, index), given what the push to
\* pushed_while_processing_ and the push to items_ would give: the one is
\* done when the slot is processing, the other when it is not.
slot_pushed(s, r_while, r_items) ==
    IF s.processing_
    THEN [slot |-> [s EXCEPT !.pushed_while_processing_ = r_while.vec,
                             !.total_items_ = @ + r_while.out],
          out |-> r_while.out]
    ELSE [slot |-> [s EXCEPT !.items_ = r_items.vec,
                             !.total_items_ = @ + r_items.out],
          out |-> r_items.out]

\* slot::push(item).
slot_push(s, item) ==
    slot_pushed(s, iv_push(s.pushed_while_processing_, item), iv_push(s.items_, item))

\* slot::push(item, index).
slot_push_indexed(s, item, index) ==
    slot_pushed(s, iv_push_indexed(s.pushed_while_processing_, item, index),
                   iv_push_indexed(s.items_, item, index))

\* slot::process_all after items_.process_all has returned: processing_ is
\* cleared, the items pushed meanwhile become items_.
slot_finish(s) ==
    LET total_processed == iv_clear(s.items_).out
    IN  [slot |-> [s EXCEPT !.processing_ = FALSE,
                            !.items_ = s.pushed_while_processing_,
                            !.pushed_while_processing_ = EmptyItemVector,
                            !.total_items_ = @ - total_processed],
         out |-> total_processed]

\* The slot with the handle.
SlotAt(sv, handle) == sv.cells_[handle + 1].value

\* serial_processor::push, had it left total_items_ of the processor as it
\* was.
processor_pushed_uncounted(p, handle, r) ==
    LET was_empty == p.slots_.cells_[handle + 1].value.total_items_ <= 0
    IN  [p EXCEPT !.slots_.cells_[handle + 1].value = r.slot,
                  !.busy_slots_ = IF was_empty /\ r.slot.total_items_ > 0
                                  THEN Append(@, handle) ELSE @]

\* serial_processor::push(handle, item) and push(handle, item, index),
\* given what slot.push returned: the total grows, a slot that was empty
\* and is not any more joins busy_slots_.
processor_pushed(p, handle, r) ==
    LET was_empty == is_empty(SlotAt(p.slots_, handle))
    IN  [p EXCEPT !.slots_.cells_[handle + 1].value = r.slot,
                  !.total_items_ = @ + r.out,
                  !.busy_slots_ = IF was_empty /\ ~is_empty(r.slot)
                                  THEN Append(@, handle) ELSE @]

\* std::find and erase: the sequence without the first element equal to
\* value.
erase_first(seq, value) ==
    LET at == {k \in 1..Len(seq) : seq[k] = value}
    IN  IF at = {} THEN seq
        ELSE LET first == CHOOSE k \in at : \A j \in at : k <= j
             IN  SubSeq(seq, 1, first - 1) \o SubSeq(seq, first + 1, Len(seq))

\* serial_processor::release_now, had it left the slot where it is.
release_now_skipped(p, handle) == p

\* serial_processor::release_now.
release_now(p, handle) ==
    LET dropped_items == slot_clear(SlotAt(p.slots_, handle)).out
    IN  [p EXCEPT !.total_items_ = @ - dropped_items,
                  !.slots_ = sv_erase(p.slots_, handle),
                  !.busy_slots_ = erase_first(p.busy_slots_, handle)]

\* serial_processor::release.
serial_release(p, handle) ==
    IF is_processing(SlotAt(p.slots_, handle))
    THEN [p EXCEPT !.deferred_release_ = Append(@, handle)]
    ELSE release_now(p, handle)

\* serial_processor::process_all, the loop over deferred_release_.
RECURSIVE release_deferred(_, _)
release_deferred(p, handles) ==
    IF handles = <<>> THEN p
    ELSE release_deferred(release_now(p, Head(handles)), Tail(handles))

\* The serial processor, its four members.
Serial ==
    [slots_ |-> slots_, busy_slots_ |-> busy_slots_,
     deferred_release_ |-> deferred_release_, total_items_ |-> total_items_]

\* The members take the values of p.
SerialBecomes(p) ==
    /\ slots_' = p.slots_
    /\ busy_slots_' = p.busy_slots_
    /\ deferred_release_' = p.deferred_release_
    /\ total_items_' = p.total_items_

\* The thread is outside the processor: between calls, or inside the
\* processor function.
SerialCanCall == sthread.pc \in {"idle", "cb"}

\* The thread between calls.
SerialIdle == [pc |-> "idle", busy |-> <<>>, pos |-> 0, h |-> 0, phase |-> "items", k |-> 0]

\* serial_processor::make_pusher: slots_.add(slot{}), taking the push_back
\* path (position_ == cells_.size(), no pusher released yet). cells_.resize
\* may move the cells to new storage; when that happens while a slot is
\* being processed, slot::process_all goes on working on the storage that
\* was freed.
SerialMakePusher(moves) ==
    /\ SerialCanCall
    /\ Len(slots_.cells_) < MaxSlots
    /\ slots_.position_ = Len(slots_.cells_)
    /\ moves => sthread.pc = "cb"
    /\ slots_' = sv_push_back(slots_, EmptySlot)
    /\ sr' = [sr EXCEPT !.held = @ \cup {slots_.position_},
                        !.ub = @ \/ moves]
    /\ UNCHANGED <<busy_slots_, deferred_release_, total_items_, sthread>>

\* What the record of the pushes made between process_all calls becomes
\* with one more indexed push.
Batched(batch, h, index, item) ==
    LET same == {e \in batch : e.h = h /\ e.index = index}
    IN  IF same = {}
        THEN batch \cup {[h |-> h, index |-> index, first |-> item, last |-> item]}
        ELSE (batch \ same) \cup {[e EXCEPT !.last = item] : e \in same}

\* The notes taken of a push: the pushes are counted; an indexed push made between process_all
\* calls is recorded until the pusher is released, an item pushed during
\* process_all is marked. The notes of a process_all call (the indexed
\* pushes it found, the items pushed during it, the calls of the processor
\* function) are kept until it returns.
PushNoted(h, item, index) ==
    [sr EXCEPT !.nitems = @ + 1,
               !.batch = IF sthread.pc = "idle" /\ index >= 0
                         THEN Batched(@, h, index, item) ELSE @,
               !.fresh = IF sthread.pc # "idle" THEN @ \cup {item} ELSE @]

\* The items a push may carry now: the next one, converting to true or to
\* false.
Pushable == {sr.nitems + 1, -(sr.nitems + 1)}

\* serial_pusher::push(item).
SerialPush(h, item) ==
    /\ SerialCanCall
    /\ h \in sr.held
    /\ sr.nitems < MaxSrItems
    /\ SerialBecomes(processor_pushed(Serial, h, slot_push(SlotAt(slots_, h), item)))
    /\ sr' = PushNoted(h, item, -1)
    /\ UNCHANGED sthread

\* serial_pusher::push_indexed(index, item).
SerialPushIndexed(h, item, index) ==
    /\ SerialCanCall
    /\ h \in sr.held
    /\ sr.nitems < MaxSrItems
    /\ SerialBecomes(processor_pushed(Serial, h,
                         slot_push_indexed(SlotAt(slots_, h), item, index)))
    /\ sr' = PushNoted(h, item, index)
    /\ UNCHANGED sthread

\* serial_pusher::release (also ~serial_pusher).
SerialRelease(h) ==
    /\ SerialCanCall
    /\ h \in sr.held
    /\ SerialBecomes(serial_release(Serial, h))
    /\ sr' = [sr EXCEPT !.held = @ \ {h},
                        !.batch = {e \in @ : e.h # h},
                        !.want = {e \in @ : e.h # h}]
    /\ UNCHANGED sthread

\* serial_processor::process_all is called.
SerialProcessAllBegin ==
    /\ sthread.pc = "idle"
    /\ sthread' = [SerialIdle EXCEPT !.pc = "while"]
    /\ sr' = [sr EXCEPT !.want = sr.batch, !.batch = {}]
    /\ UNCHANGED <<slots_, busy_slots_, deferred_release_, total_items_>>

\* serial_processor::process_all at while (total_items_ > 0): another
\* round over a copy of busy_slots_, or the end of the call: busy_slots_ is
\* cleared and the deferred releases are made. With items left and no busy
\* slot the loop goes round for ever.
SerialWhile ==
    /\ sthread.pc = "while"
    /\ IF total_items_ > 0
       THEN /\ sthread' = [sthread EXCEPT !.pc = "for", !.busy = busy_slots_, !.pos = 1]
            /\ sr' = [sr EXCEPT !.spin = @ \/ busy_slots_ = <<>>]
            /\ UNCHANGED <<slots_, busy_slots_, deferred_release_, total_items_>>
       ELSE /\ sthread' = SerialIdle
            /\ SerialBecomes([release_deferred([Serial EXCEPT !.busy_slots_ = <<>>],
                                               deferred_release_)
                                 EXCEPT !.deferred_release_ = <<>>])
            /\ sr' = [sr EXCEPT !.processed = <<>>, !.want = {}, !.fresh = {}]

\* serial_processor::process_all, the loop over the copy of busy_slots_: an
\* empty slot is passed over, slot::process_all starts on any other. The
\* slot of a pusher released since the copy was made no longer exists.
SerialFor ==
    /\ sthread.pc = "for"
    /\ IF sthread.pos > Len(sthread.busy)
       THEN /\ sthread' = [sthread EXCEPT !.pc = "while"]
            /\ UNCHANGED <<slots_, sr>>
       ELSE LET handle == sthread.busy[sthread.pos]
            IN  IF ~slots_.cells_[handle + 1].live
                THEN /\ sthread' = [sthread EXCEPT !.pos = @ + 1]
                     /\ sr' = [sr EXCEPT !.ub = TRUE]
                     /\ UNCHANGED slots_
                ELSE IF is_empty(SlotAt(slots_, handle))
                THEN /\ sthread' = [sthread EXCEPT !.pos = @ + 1]
                     /\ UNCHANGED <<slots_, sr>>
                ELSE /\ sthread' = [sthread EXCEPT !.pc = "pass", !.h = handle,
                                                   !.phase = "items", !.k = 1]
                     /\ slots_' = [slots_ EXCEPT
                                      !.cells_[handle + 1].value.processing_ = TRUE]
                     /\ UNCHANGED sr
    /\ UNCHANGED <<busy_slots_, deferred_release_, total_items_>>

\* The processor function is called with an item of the slot being
\* processed.
Called(item, index) ==
    [sr EXCEPT !.processed =
        Append(@, [h |-> sthread.h, index |-> index, item |-> item,
                   same |-> item \in sr.fresh])]

\* item_vector::process_all inside slot::process_all: the next of items_
\* is passed to the processor function, then the next of indices_; after
\* the last the vector is cleared, slot::process_all ends and
\* serial_processor::process_all takes the count off total_items_.
SerialPassNext ==
    /\ sthread.pc = "pass"
    /\ LET s == SlotAt(slots_, sthread.h)
           v == s.items_
           j == IF sthread.phase = "items" THEN 1 ELSE sthread.k
       IN  IF sthread.phase = "items" /\ sthread.k <= Len(v.items_)
           THEN /\ sthread' = [sthread EXCEPT !.pc = "cb"]
                /\ sr' = Called(v.items_[sthread.k], -1)
                /\ UNCHANGED <<slots_, total_items_>>
           ELSE IF j <= Len(v.indices_)
           THEN /\ sthread' = [sthread EXCEPT !.pc = "cb", !.phase = "indexed", !.k = j]
                /\ sr' = Called(v.indexed_items_[v.indices_[j] + 1], v.indices_[j])
                /\ UNCHANGED <<slots_, total_items_>>
           ELSE LET r == slot_finish(s)
                IN  /\ slots_' = [slots_ EXCEPT !.cells_[sthread.h + 1].value = r.slot]
                    /\ total_items_' = total_items_ - r.out
                    /\ sthread' = IF total_items_ - r.out = 0
                                  THEN [sthread EXCEPT !.pc = "while"]
                                  ELSE [sthread EXCEPT !.pc = "for", !.pos = @ + 1]
                    /\ UNCHANGED sr
    /\ UNCHANGED <<busy_slots_, deferred_release_>>

\* The processor function returns.
SerialCallbackReturn ==
    /\ sthread.pc = "cb"
    /\ sthread' = [sthread EXCEPT !.pc = "pass", !.k = @ + 1]
    /\ UNCHANGED <<slots_, busy_slots_, deferred_release_, total_items_, sr>>

\* Everything but the serial processor.
notSerial == <<moreVars, svVars, rcvVars, sigVars, lifeVars, lfVars, lkVars, tkVars>>

\* The serial processor: pushers are made, pushed through and released
\* between process_all calls and from inside the processor function.
NextSerial ==
    \/ \E moves \in BOOLEAN : SerialMakePusher(moves) /\ UNCHANGED notSerial
    \/ \E h \in 0..(MaxSlots - 1), item \in Pushable :
          SerialPush(h, item) /\ UNCHANGED notSerial
    \/ \E h \in 0..(MaxSlots - 1), item \in Pushable, index \in 0..MaxIndex :
          SerialPushIndexed(h, item, index) /\ UNCHANGED notSerial
    \/ \E h \in 0..(MaxSlots - 1) : SerialRelease(h) /\ UNCHANGED notSerial
    \/ SerialProcessAllBegin /\ UNCHANGED notSerial
    \/ SerialWhile /\ UNCHANGED notSerial
    \/ SerialFor /\ UNCHANGED notSerial
    \/ SerialPassNext /\ UNCHANGED notSerial
    \/ SerialCallbackReturn /\ UNCHANGED notSerial

SpecSerial == Init /\ [][NextSerial]_vars

\* A program that uses one of the three processors: the lock-free one with
\* a producer thread, the locking one with a producer thread, or the serial
\* one.
NextProcessor ==
    \/ InitLocking /\ InitSerial /\ NextLockFreeRace
    \/ InitLockFree /\ InitSerial /\ NextLockingThreads
    \/ InitLockFree /\ InitLocking /\ NextSerial

SpecProcessor == Init /\ [][NextProcessor]_vars

----------------------------------------------------------------------------
(* task_processor.hpp: the lock-free task processor *)

\* The sizes make_pusher of the task processor is called with.
TaskSizes == {1, 2}

\* lock_free_task_processor::queue::queue(initial_size)
task_queue(initial_size) == lock_free_queue(initial_size)

\* std::max
max(a, b) == IF a >= b THEN a ELSE b

\* make_pusher, the loop at 184-187: every handle of the vector pushed to is
\* acquired in the overflow vector with a new queue of the size of its queue.
RECURSIVE acquire_all_at(_, _, _, _)
acquire_all_at(overflow_queue_vec, push_queue_vec, handles, k) ==
    IF k > Len(handles) THEN overflow_queue_vec
    ELSE acquire_all_at(
            occupy(overflow_queue_vec, handles[k],
                   task_queue(get(push_queue_vec, handles[k])[1].size_)),
            push_queue_vec, handles, k + 1)

\* lock_free_task_processor::make_pusher: the two vectors and overflow_ after
\* the call, and the handle of the pusher returned.
task_make_pusher(pair, overflow, push_index, initial_size) ==
    LET push_queue_vec == pair[push_index + 1]
        overflow_queue_vec == pair[2 - push_index]
    IN  IF ~overflow
        THEN IF size(push_queue_vec) < capacity(push_queue_vec)
             THEN LET a == acquire(push_queue_vec, task_queue(initial_size))
                  IN  [pair |-> [pair EXCEPT ![push_index + 1] = a.store],
                       overflow |-> FALSE, handle |-> a.handle]
             ELSE LET reserved == reserve(overflow_queue_vec,
                                          max(capacity(push_queue_vec), 1) * 2)
                      copied == acquire_all_at(reserved, push_queue_vec,
                                               active_handles(push_queue_vec), 1)
                      a == acquire(copied, task_queue(initial_size))
                  IN  [pair |-> [pair EXCEPT ![2 - push_index] = a.store],
                       overflow |-> TRUE, handle |-> a.handle]
        ELSE LET reserved == IF size(overflow_queue_vec) = capacity(overflow_queue_vec)
                             THEN reserve(overflow_queue_vec,
                                          max(capacity(overflow_queue_vec), 1) * 2)
                             ELSE overflow_queue_vec
                 a == acquire(reserved, task_queue(initial_size))
             IN  [pair |-> [pair EXCEPT ![2 - push_index] = a.store],
                  overflow |-> TRUE, handle |-> a.handle]

\* lock_free_task_processor::release_pusher: the two vectors after the call.
task_release_pusher(pair, overflow, push_index, handle) ==
    LET released == [pair EXCEPT ![push_index + 1] = release(@, handle)]
    IN  IF overflow
        THEN [released EXCEPT ![2 - push_index] = release(@, handle)]
        ELSE released

\* release_pusher releases a handle that a vector does not hold: destruct_at
\* of a cell without an object, or outside the buffer.
ReleasesNothing(pair, overflow, push_index, handle) ==
    \/ ~contains(pair[push_index + 1].current_, handle)
    \/ overflow /\ ~contains(pair[2 - push_index].current_, handle)

\* lock_free_task_processor::queue::push, in a build without _DEBUG.
task_queue_push(q, task) ==
    [q EXCEPT !.queue_pair_[q.push_index_ + 1] =
                  push_may_not_allocate(@, task, "release").queue]

\* The queue at handle of vector vec (0 or 1).
QueueAt(vec, handle) == get(queue_vec_pair_[vec + 1], handle)[1]

\* The consumer thread is not inside process_all.
TaskConsumerIdle == tconsumer.pc = "idle"

\* pusher = processor.make_pusher(initial_size), on the consumer thread.
TaskMakePusher(initial_size) ==
    LET r == task_make_pusher(queue_vec_pair_, overflow_, push_index_, initial_size)
    IN  /\ TaskConsumerIdle
        /\ Len(task_pusher) < MaxTaskPushers
        /\ queue_vec_pair_' = r.pair
        /\ overflow_' = r.overflow
        /\ task_pusher' = Append(task_pusher, [processor_ |-> TRUE, handle_ |-> r.handle,
                                               ready |-> FALSE])
        /\ UNCHANGED <<push_index_, tconsumer, tproducer, tp>>

\* pusher.release() or ~lock_free_task_pusher, on the consumer thread, of a
\* pusher no push is in progress on.
TaskReleasePusher(p) ==
    /\ TaskConsumerIdle
    /\ task_pusher[p].processor_
    /\ ~(tproducer.pc # "idle" /\ tproducer.p = p)
    /\ queue_vec_pair_' = task_release_pusher(queue_vec_pair_, overflow_, push_index_,
                                              task_pusher[p].handle_)
    /\ task_pusher' = [task_pusher EXCEPT ![p].processor_ = FALSE]
    /\ tp' = [tp EXCEPT !.ub = @ \/ ReleasesNothing(queue_vec_pair_, overflow_,
                                                    push_index_, task_pusher[p].handle_)]
    /\ UNCHANGED <<overflow_, push_index_, tconsumer, tproducer>>

\* pusher.push(task) on the producer thread, up to the read of push_index_
\* at 217, through a pusher made before the last process_all call (lines
\* 42-44). The tasks are numbered as they are pushed.
TaskPushRead(p) ==
    /\ tproducer.pc = "idle"
    /\ task_pusher[p].processor_
    /\ task_pusher[p].ready
    /\ tp.ntasks < MaxTasks
    /\ tproducer' = [pc |-> "vec", p |-> p, vec |-> push_index_, task |-> tp.ntasks + 1]
    /\ tp' = [tp EXCEPT !.ntasks = @ + 1]
    /\ UNCHANGED <<queue_vec_pair_, overflow_, push_index_, task_pusher, tconsumer>>

\* The rest of the push, line 219: the queue at the handle in the vector
\* that was read, and queue::push. A handle the vector does not hold is a
\* read of a cell without an object.
TaskPushEnqueue ==
    LET vec == queue_vec_pair_[tproducer.vec + 1]
        handle == task_pusher[tproducer.p].handle_
    IN  /\ tproducer.pc = "vec"
        /\ IF contains(vec.current_, handle) /\ handle < capacity(vec)
           THEN /\ queue_vec_pair_' =
                      [queue_vec_pair_ EXCEPT ![tproducer.vec + 1].buffer_[handle + 1] =
                          Cell(task_queue_push(@[1], tproducer.task))]
                /\ tp' = [tp EXCEPT !.done = @ \cup {[task |-> tproducer.task,
                                                     p |-> tproducer.p]}]
           ELSE /\ tp' = [tp EXCEPT !.ub = TRUE]
                /\ UNCHANGED queue_vec_pair_
        /\ tproducer' = NoTaskPush
        /\ UNCHANGED <<overflow_, push_index_, task_pusher, tconsumer>>

\* process_all, lines 238-244 or 252-254: with overflow_ set push_index_
\* flips and the loop is over the handles of the vector pushed to until
\* then, else over those of the vector pushed to.
TaskProcessAllBegin ==
    /\ TaskConsumerIdle
    /\ IF overflow_
       THEN /\ push_index_' = 1 - push_index_
            /\ tconsumer' = [TaskIdle EXCEPT
                    !.pc = "loop", !.vec = push_index_, !.pos = 1, !.old = TRUE,
                    !.handles = active_handles(queue_vec_pair_[push_index_ + 1])]
       ELSE /\ tconsumer' = [TaskIdle EXCEPT
                    !.pc = "loop", !.vec = push_index_, !.pos = 1,
                    !.handles = active_handles(queue_vec_pair_[push_index_ + 1])]
            /\ UNCHANGED push_index_
    /\ UNCHANGED <<queue_vec_pair_, overflow_, task_pusher, tproducer, tp>>

\* queue::process_all, lines 141-154, of the next handle of the loop: the
\* queue grows if the test says so and the old queue is drained first.
TaskQueueProcessAll ==
    /\ tconsumer.pc = "loop"
    /\ tconsumer.pos <= Len(tconsumer.handles)
    /\ LET handle == tconsumer.handles[tconsumer.pos]
           q == QueueAt(tconsumer.vec, handle)
       IN  IF grows(q)
           THEN /\ queue_vec_pair_' =
                      [queue_vec_pair_ EXCEPT ![tconsumer.vec + 1].buffer_[handle + 1] =
                          Cell(grow(q))]
                /\ tconsumer' = [tconsumer EXCEPT !.pc = "drain", !.buf = q.push_index_,
                                                  !.grew = TRUE]
           ELSE /\ tconsumer' = [tconsumer EXCEPT !.pc = "drain", !.buf = q.push_index_,
                                                  !.grew = FALSE]
                /\ UNCHANGED queue_vec_pair_
    /\ UNCHANGED <<overflow_, push_index_, task_pusher, tproducer, tp>>

\* queue::process_all(q), lines 127-136: one turn of while (q->pop(&task))
\* task(), or its end.
TaskPop ==
    /\ tconsumer.pc = "drain"
    /\ LET handle == tconsumer.handles[tconsumer.pos]
           q == QueueAt(tconsumer.vec, handle)
           items == q.queue_pair_[tconsumer.buf + 1].items
       IN  IF items # <<>>
           THEN /\ queue_vec_pair_' =
                      [queue_vec_pair_ EXCEPT ![tconsumer.vec + 1].buffer_[handle + 1] =
                          Cell([q EXCEPT !.queue_pair_[tconsumer.buf + 1].items = Tail(@)])]
                /\ tp' = [tp EXCEPT !.executed = Append(@, Head(items))]
                /\ UNCHANGED tconsumer
           ELSE /\ IF tconsumer.grew
                   THEN tconsumer' = [tconsumer EXCEPT !.buf = q.push_index_,
                                                       !.grew = FALSE]
                   ELSE tconsumer' = [tconsumer EXCEPT !.pc = "loop", !.pos = @ + 1]
                /\ UNCHANGED <<queue_vec_pair_, tp>>
    /\ UNCHANGED <<overflow_, push_index_, task_pusher, tproducer>>

\* process_all, the end of a loop: after the one at 244-247 overflow_ is
\* cleared and the loop over the vector pushed to follows; after that one
\* process_all returns.
TaskLoopEnd ==
    /\ tconsumer.pc = "loop"
    /\ tconsumer.pos > Len(tconsumer.handles)
    /\ IF tconsumer.old
       THEN /\ overflow_' = FALSE
            /\ tconsumer' = [TaskIdle EXCEPT
                    !.pc = "loop", !.vec = push_index_, !.pos = 1,
                    !.handles = active_handles(queue_vec_pair_[push_index_ + 1])]
            /\ UNCHANGED task_pusher
       ELSE /\ tconsumer' = TaskIdle
            /\ task_pusher' = [p \in DOMAIN task_pusher |->
                                  [task_pusher[p] EXCEPT !.ready = TRUE]]
            /\ UNCHANGED overflow_
    /\ UNCHANGED <<queue_vec_pair_, push_index_, tproducer, tp>>

notTasks == <<moreVars, svVars, rcvVars, sigVars, lifeVars, lfVars, lkVars, srVars>>

\* The task processor with its consumer thread and one producer thread.
NextTasks ==
    \/ \E n \in TaskSizes : TaskMakePusher(n) /\ UNCHANGED notTasks
    \/ \E p \in DOMAIN task_pusher : TaskReleasePusher(p) /\ UNCHANGED notTasks
    \/ \E p \in DOMAIN task_pusher : TaskPushRead(p) /\ UNCHANGED notTasks
    \/ TaskPushEnqueue /\ UNCHANGED notTasks
    \/ TaskProcessAllBegin /\ UNCHANGED notTasks
    \/ TaskQueueProcessAll /\ UNCHANGED notTasks
    \/ TaskPop /\ UNCHANGED notTasks
    \/ TaskLoopEnd /\ UNCHANGED notTasks

SpecTasks == Init /\ [][NextTasks]_vars

----------------------------------------------------------------------------
(* stable_vector.hpp *)

\* The values stored in the stable_vector.
StableValues == {<<12>>, <<34>>}

\* A search that stops at the position after the given one.
sv_next_cell(cells, position) == position + 1

\* stable_vector::find_next_empty_cell: the first position after the given
\* one that the cell before it does not link to. A position past the last
\* cell is not read.
RECURSIVE sv_find_next_empty_cell(_, _)
sv_find_next_empty_cell(cells, position) ==
    IF position >= Len(cells) THEN position
    ELSE IF cells[position + 1].next # position + 1 THEN position + 1
    ELSE sv_find_next_empty_cell(cells, position + 1)

\* stable_vector::insert: the value goes into the cell at position_, which
\* is linked in front of front_ or after the cell before it; position_
\* moves on to the next empty cell.
sv_insert(sv, value) ==
    LET pos == sv.position_
        prev == pos - 1
        filled == [sv.cells_ EXCEPT ![pos + 1].live = TRUE,
                                    ![pos + 1].value = value,
                                    ![pos + 1].prev = prev]
        linked ==
            IF sv.front_ > pos
            THEN [filled EXCEPT ![pos + 1].prev = -1,
                                ![pos + 1].next = sv.front_,
                                ![sv.front_ + 1].prev = pos]
            ELSE IF prev >= 0
            THEN LET next == filled[prev + 1].next
                     after == [filled EXCEPT ![pos + 1].next = next,
                                             ![prev + 1].next = pos]
                 IN  IF next >= 0
                     THEN [after EXCEPT ![next + 1].prev = pos]
                     ELSE after
            ELSE [filled EXCEPT ![pos + 1].next = -1]
    IN  [sv EXCEPT !.cells_ = linked,
                   !.front_ = IF sv.front_ > pos \/ sv.front_ = -1 THEN pos ELSE sv.front_,
                   !.back_ = IF pos > sv.back_ THEN pos ELSE sv.back_,
                   !.position_ = sv_find_next_empty_cell(linked, pos),
                   !.size_ = sv.size_ + 1]

\* stable_vector::add: the vector after the call; the handle returned is
\* position_ as it was.
sv_add(sv, value) ==
    IF sv.position_ = Len(sv.cells_) THEN sv_push_back(sv, value) ELSE sv_insert(sv, value)

\* stable_vector::is_valid
is_valid(sv, index) ==
    IF sv.size_ = 0 \/ index >= sv.size_ THEN FALSE
    ELSE LET info == sv.cells_[index + 1]
         IN  IF info.prev = -1 /\ info.next = -1 THEN TRUE
             ELSE IF info.prev >= 0 THEN sv.cells_[info.prev + 1].next = index
             ELSE IF info.next >= 0 THEN sv.cells_[info.next + 1].prev = index
             ELSE FALSE

\* iterator_t::operator++ and reverse_iterator_t::operator++ applied from
\* the given position until it compares equal to end() or rend(): the
\* positions the loop visits, in order. A loop that would not end is cut
\* after fuel steps.
RECURSIVE iterate(_, _, _, _)
iterate(cells, position, forward, fuel) ==
    IF position = -1 \/ fuel = 0 THEN <<>>
    ELSE <<position>> \o
         iterate(cells,
                 IF forward THEN cells[position + 1].next ELSE cells[position + 1].prev,
                 forward, fuel - 1)

\* for (pos = v.begin(); pos != v.end(); pos++): the indices visited
Forward(sv) == iterate(sv.cells_, sv.front_, TRUE, Len(sv.cells_) + 1)

\* for (pos = v.rbegin(); pos != v.rend(); pos++): the indices visited
Reverse(sv) == iterate(sv.cells_, sv.back_, FALSE, Len(sv.cells_) + 1)

\* The handles add returned that were not erased since.
LiveHandles(sv) =={h \in 0..(Len(sv.cells_) - 1) : sv.cells_[h + 1].live}

\* handle = vector.add(value), for a vector of at most MaxCells cells
StableAdd(value) ==
    /\ vector.size_ < MaxCells
    /\ vector' = sv_add(vector, value)
    /\ checked' = NoCheck

\* vector.erase(handle) of a handle that add returned
StableErase(handle) ==
    /\ handle \in LiveHandles(vector)
    /\ vector' = sv_erase(vector, handle)
    /\ checked' = NoCheck

\* vector.is_valid(index)
StableIsValid(index) ==
    /\ checked' = [index |-> index, out |-> is_valid(vector, index)]
    /\ UNCHANGED vector

notStable == <<moreVars, rcvVars, sigVars, lifeVars, lfVars, lkVars, srVars, tkVars>>

NextStable ==
    \/ \E value \in StableValues : StableAdd(value) /\ UNCHANGED notStable
    \/ \E handle \in 0..(MaxCells - 1) : StableErase(handle) /\ UNCHANGED notStable
    \/ \E index \in 0..MaxCells : StableIsValid(index) /\ UNCHANGED notStable

SpecStable == Init /\ [][NextStable]_vars

\* for (auto pos = v.begin(); ...) or for (auto pos = v.rbegin(); ...):
\* the loop starts; start is what the vector held then, in the order of
\* the direction.
WalkBegin(forward) ==
    /\ ~walk.active
    /\ walk' = [active |-> TRUE, forward |-> forward,
                position_ |-> IF forward THEN vector.front_ ELSE vector.back_,
                start |-> IF forward THEN Forward(vector) ELSE Reverse(vector),
                visited |-> <<>>, erased |-> {}]
    /\ UNCHANGED <<vector, checked>>

\* One pass of the loop body and its increment: pos != v.end(), *pos is
\* read, the element is erased through the iterator or kept, then pos++
\* reads the link of the cell the iterator stands on.
WalkStep(erase) ==
    /\ walk.active
    /\ walk.position_ # -1
    /\ LET after == IF erase THEN sv_erase(vector, walk.position_) ELSE vector
           info == after.cells_[walk.position_ + 1]
       IN  /\ vector' = after
           /\ walk' = [walk EXCEPT
                  !.position_ = IF walk.forward THEN info.next ELSE info.prev,
                  !.visited = Append(@, walk.position_),
                  !.erased = IF erase THEN @ \cup {walk.position_} ELSE @]
    /\ checked' = NoCheck

\* pos == v.end(): the loop is left.
WalkEnd ==
    /\ walk.active
    /\ walk.position_ = -1
    /\ walk' = NoWalk
    /\ UNCHANGED <<vector, checked>>

notWalk == <<mgr, ur, destroyed, rcvVars, sigVars, lifeVars, lfVars, lkVars, srVars, tkVars>>

NextWalk ==
    \/ \E value \in StableValues :
          ~walk.active /\ StableAdd(value) /\ UNCHANGED <<walk, notWalk>>
    \/ \E handle \in 0..(MaxCells - 1) :
          ~walk.active /\ StableErase(handle) /\ UNCHANGED <<walk, notWalk>>
    \/ \E forward \in BOOLEAN : WalkBegin(forward) /\ UNCHANGED notWalk
    \/ \E erase \in BOOLEAN : WalkStep(erase) /\ UNCHANGED notWalk
    \/ WalkEnd /\ UNCHANGED notWalk

SpecWalk == Init /\ [][NextWalk]_vars

----------------------------------------------------------------------------
(* undo_redo.hpp *)

\* The commits made on one undo_redo and the calls of undo and redo.
MaxCommits == 3
MaxUndoCalls == 3

\* KeyType values and merge modes of the actions committed.
Keys == {"a", "b"}
MergeModes == {"none", "ends", "all"}

\* An undo_redo_action with one do command and one undo command, both
\* named after the commit they belong to.
action_body(key, merge_mode, n) ==
    [key |-> key, merge_mode |-> merge_mode,
     do_commands |-> <<[kind |-> "do", n |-> n]>>,
     undo_commands |-> <<[kind |-> "undo", n |-> n]>>]

\* undo_redo::is_same_action
is_same_action(m, action) ==
    IF m.actions_ = <<>> THEN FALSE
    ELSE action.key = m.actions_[Len(m.actions_)].key

\* undo_redo::trim
trim(m) ==
    IF m.length_ > 0 /\ m.position_ <= m.length_ THEN m
    ELSE [m EXCEPT !.actions_ = Tail(@), !.position_ = @ - 1]

\* undo_redo::commit_no_merging
commit_no_merging(m, action) ==
    trim([m EXCEPT !.merge_mode_ = action.merge_mode,
                   !.actions_ = Append(SubSeq(@, 1, m.position_), action),
                   !.position_ = @ + 1])

\* undo_redo::commit_merge_all
commit_merge_all(m, action) ==
    LET last == Len(m.actions_)
    IN  [m EXCEPT !.actions_[last].undo_commands = action.undo_commands \o @,
                  !.actions_[last].do_commands = @ \o action.do_commands]

\* undo_redo::commit_merge_ends
commit_merge_ends(m, action) ==
    [m EXCEPT !.actions_[Len(m.actions_)].do_commands = action.do_commands]

\* undo_redo::commit(action_body_type)
commit(m, action) ==
    IF m.merge_mode_ = "all"
    THEN IF ~is_same_action(m, action)
         THEN commit_no_merging([m EXCEPT !.merge_mode_ = "none"], action)
         ELSE commit_merge_all(m, action)
    ELSE IF m.merge_mode_ = "ends"
    THEN IF ~is_same_action(m, action)
         THEN commit_no_merging([m EXCEPT !.merge_mode_ = "none"], action)
         ELSE commit_merge_ends(m, action)
    ELSE commit_no_merging(m, action)

\* undo_redo<KeyType> mgr{length}, before any call is made on it
Construct(length) ==
    /\ ur.commits = <<>>
    /\ ur.ncalls = 0
    /\ mgr.actions_ = <<>>
    /\ mgr' = undo_redo(length)
    /\ UNCHANGED ur

\* mgr.commit(action), the action being the next one the client makes
Commit(key, merge_mode) ==
    /\ Len(ur.commits) < MaxCommits
    /\ LET n == Len(ur.commits) + 1
       IN  /\ mgr' = commit(mgr, action_body(key, merge_mode, n))
           /\ ur' = [ur EXCEPT !.commits = Append(@, n),
                               !.plain = @ /\ merge_mode = "none" /\ ur.undone = 0]

\* mgr.undo()
Undo ==
    /\ ur.ncalls < MaxUndoCalls
    /\ IF mgr.position_ = 0
       THEN /\ ur' = [ur EXCEPT !.out = Append(@, FALSE), !.undone = @ + 1,
                                !.ncalls = @ + 1]
            /\ UNCHANGED mgr
       ELSE /\ mgr' = [mgr EXCEPT !.position_ = @ - 1]
            /\ ur' = [ur EXCEPT !.ran = @ \o mgr.actions_[mgr.position_].undo_commands,
                                !.out = Append(@, TRUE), !.undone = @ + 1,
                                !.ncalls = @ + 1]

\* mgr.redo()
Redo ==
    /\ ur.ncalls < MaxUndoCalls
    /\ IF mgr.position_ = Len(mgr.actions_)
       THEN /\ ur' = [ur EXCEPT !.plain = FALSE, !.ncalls = @ + 1]
            /\ UNCHANGED mgr
       ELSE /\ mgr' = [mgr EXCEPT !.position_ = @ + 1]
            /\ ur' = [ur EXCEPT !.ran = @ \o mgr.actions_[mgr.position_ + 1].do_commands,
                                !.plain = FALSE, !.ncalls = @ + 1]

\* mgr.clear()
Clear ==
    /\ mgr' = [mgr EXCEPT !.actions_ = <<>>, !.merge_mode_ = "none", !.position_ = 0]
    /\ ur' = [ur EXCEPT !.plain = FALSE]

notUndo == <<walk, destroyed, svVars, rcvVars, sigVars, lifeVars, lfVars, lkVars, srVars, tkVars>>

NextUndo ==
    \/ \E length \in 0..MaxLength : Construct(length) /\ UNCHANGED notUndo
    \/ \E key \in Keys, merge_mode \in MergeModes :
          Commit(key, merge_mode) /\ UNCHANGED notUndo
    \/ Undo /\ UNCHANGED notUndo
    \/ Redo /\ UNCHANGED notUndo
    \/ Clear /\ UNCHANGED notUndo

SpecUndo == Init /\ [][NextUndo]_vars

----------------------------------------------------------------------------
(* Claims about the slot store *)

Handles(hs) == {e.handle : e \in hs}

\* The lowest index that is not an element of vec.
RECURSIVE LowestFreeFrom(_, _)
LowestFreeFrom(vec, i) ==
    IF i \in Range(vec) THEN LowestFreeFrom(vec, i + 1) ELSE i

LowestFree(vec) == LowestFreeFrom(vec, 0)

StrictlyAscending(vec) == \A i \in 1..(Len(vec) - 1) : vec[i] < vec[i + 1]

\* C1: every handle acquired and not yet released is occupied and get of it is
\* the value its acquire stored; no two held handles are the same index; the
\* handle acquire returns was not occupied when acquire was called; no assert
\* of the store fails.
C1_HandlesStayValid ==
    /\ ~store.failed
    /\ \A e \in held :
          /\ contains(store.current_, e.handle)
          /\ e.handle < capacity(store)
          /\ get(store, e.handle) = Cell(e.value)
    /\ \A e1, e2 \in held : e1.handle = e2.handle => e1 = e2
    /\ ret.op = "acquire" => ret.handle \notin Range(ret.before)

\* C1 witness: an acquire reused a released index below two handles that are
\* still held with their values, after the buffer had grown.
C1_Witness ==
    /\ ret.op = "acquire"
    /\ ret.handle = 0
    /\ Cardinality(held) = 3
    /\ capacity(store) = 6
    /\ {1, 2} \subseteq Handles(held)

\* C2: the cursor is the lowest free index (all below it occupied, itself free)
\* and the handle acquire returned was the lowest index free at the call.
C2_CursorIsLowestFree ==
    /\ \A i \in 0..(store.next_ - 1) : contains(store.current_, i)
    /\ ~contains(store.current_, store.next_)
    /\ store.next_ = LowestFree(store.current_)
    /\ ret.op = "acquire" => ret.handle = LowestFree(ret.before)

\* C2 witness: index 1 was released while 0, 2 and 3 stay occupied, so the
\* cursor went back to 1.
C2_Witness ==
    /\ ret.op = "release"
    /\ ret.handle = 1
    /\ Handles(held) = {0, 2, 3}
    /\ store.next_ = 1

\* The values read through the active handles, in their order.
ActiveValues(s) == [i \in 1..Len(active_handles(s)) |-> get(s, active_handles(s)[i])]

IsCall(c, op, value) == c.op = op /\ c.value = value

\* calls is acquire(10), acquire(20), acquire(30), release(h2), acquire(99),
\* h2 being what the second acquire returned.
ScenarioRun ==
    /\ Len(calls) = 5
    /\ IsCall(calls[1], "acquire", 10)
    /\ IsCall(calls[2], "acquire", 20)
    /\ IsCall(calls[3], "acquire", 30)
    /\ calls[4].op = "release" /\ calls[4].handle = calls[2].handle
    /\ IsCall(calls[5], "acquire", 99)

\* C3: active_handles is exactly the held handles, each once, strictly
\* ascending; and after acquire(10), acquire(20), acquire(30), release(h2),
\* acquire(99) the three handles were distinct, the last acquire returned h2
\* and the active values read in order are 10, 99, 30.
C3_ActiveHandlesExact ==
    /\ Range(active_handles(store)) = Handles(held)
    /\ Len(active_handles(store)) = Cardinality(held)
    /\ StrictlyAscending(active_handles(store))
    /\ ScenarioRun =>
          /\ Cardinality({calls[1].handle, calls[2].handle, calls[3].handle}) = 3
          /\ calls[5].handle = calls[2].handle
          /\ ActiveValues(store) = <<Cell(10), Cell(99), Cell(30)>>

\* C3 witness: the scenario has been run.
C3_Witness == ScenarioRun

\* C4: a step never shrinks the buffer; a step that grows it keeps every
\* index that was occupied occupied, with the value it had, and adds at most
\* the handle an acquire returns; the occupied indices always fit the buffer.
C4_GrowthKeepsHandles ==
    [][/\ capacity(store') >= capacity(store)
       /\ size(store') <= capacity(store')
       /\ capacity(store') > capacity(store) =>
             /\ \A i \in 1..Len(store.current_) :
                   /\ contains(store'.current_, store.current_[i])
                   /\ get(store', store.current_[i]) = get(store, store.current_[i])
             /\ Range(store'.current_) \ Range(store.current_)
                   = IF ret'.op = "acquire" THEN {ret'.handle} ELSE {}]_vars

\* C4 witness: acquire has just grown the buffer with two handles held.
C4_WitnessAcquire ==
    /\ ret.op = "acquire"
    /\ capacity(store) > ret.cap
    /\ Len(ret.before) >= 2

\* The same for a growth by reserve.
C4_WitnessReserve ==
    /\ ret.op = "reserve"
    /\ capacity(store) > ret.cap
    /\ Len(ret.before) >= 2

----------------------------------------------------------------------------
(* Claims about the signal *)

\* The record connect and cn::cn leave at the handle of connection c.
Rec(c) == [body |-> c, cb |-> c]

\* Connection c's slot is occupied and holds c's record.
InStore(c) ==
    /\ contains(cns_.current_, hist[c].handle)
    /\ hist[c].handle < capacity(cns_)
    /\ get(cns_, hist[c].handle) = Cell(Rec(c))

Conns == DOMAIN hist

\* Connections whose token was destroyed during the outermost broadcast that
\* is still in progress.
Pending == {c \in Conns : hist[c].destroyed = "pass"}

\* A frame whose loop has gone through all its handles.
Finished(f) == ~f.in_cb /\ f.pos > Len(f.handles)

FiredCbs(f) == [i \in 1..Len(f.fired) |-> f.fired[i].cb]

Count(c, seq) == Cardinality({i \in 1..Len(seq) : seq[i] = c})

\* C5: a connection disconnected while a broadcast is in progress keeps its
\* slot (occupied, get gives its record, its handle waits in
\* deferred_disconnect_ and is the handle of no live connection) for as long as
\* the outermost broadcast is in progress; once no broadcast is in progress
\* its slot has been released.
C5_DisconnectIsDeferred ==
    /\ ~cns_.failed
    /\ \A c \in Pending :
          /\ Depth > 0
          /\ InStore(c)
          /\ hist[c].handle \in deferred_disconnect_
          /\ \A d \in Conns : TokenAlive(d) => tokens[d].handle # hist[c].handle
    /\ Depth = 0 => \A c \in Conns : hist[c].destroyed = "past" => ~InStore(c)

\* C5 witness: inside a callback, a connection disconnected during this
\* broadcast still holds its slot, and a connection made after it holds
\* another.
C5_Witness ==
    /\ Depth > 0
    /\ Top.in_cb
    /\ \E c \in Pending : \E d \in Conns :
          d > c /\ d > Top.born /\ TokenAlive(d) /\ hist[d].handle > hist[c].handle

\* C6 as claimed: when a pass has gone through its handles, every entry of
\* its snapshot has been visited exactly once.
C6_EverySnapshotEntryVisited ==
    (Depth > 0 /\ Finished(Top)) => FiredCbs(Top) = Top.cbs

\* C6 as amended: every entry of the snapshot is visited at most once and
\* nothing else is visited; when the pass has gone through its handles, every
\* entry whose connection is still connected has been visited exactly once,
\* and an entry that was not visited is one disconnected during the broadcast.
C6_VisitedUnlessDisconnected ==
    \A k \in 1..Depth :
        LET f == stack[k]
        IN  /\ \A i \in 1..Len(f.fired) :
                  /\ Count(f.fired[i].cb, FiredCbs(f)) = 1
                  /\ Count(f.fired[i].cb, f.cbs) = 1
            /\ Finished(f) =>
                  \A i \in 1..Len(f.cbs) :
                     /\ TokenAlive(f.cbs[i]) => Count(f.cbs[i], FiredCbs(f)) = 1
                     /\ Count(f.cbs[i], FiredCbs(f)) = 0 => f.cbs[i] \in Pending

\* C6 witness: a pass has gone through its handles, visited one entry and
\* skipped another that was disconnected before its turn.
C6_Witness ==
    /\ Depth > 0
    /\ Finished(Top)
    /\ Len(Top.fired) >= 1
    /\ \E i \in 1..Len(Top.cbs) : Count(Top.cbs[i], FiredCbs(Top)) = 0

\* C7: visiting_ is the number of broadcasts in progress; while one is in
\* progress the handles waiting in deferred_disconnect_ are exactly those of
\* the connections disconnected during it and none of them has been released;
\* when none is in progress visiting_ is 0, deferred_disconnect_ is empty and
\* every disconnected connection has been released, each once: the occupied
\* slots are exactly those of the connected connections, and no release hit a
\* free slot.
C7_FlushAtOutermostExit ==
    /\ visiting_ = Depth
    /\ deferred_disconnect_ = {hist[c].handle : c \in Pending}
    /\ \A c \in Pending : InStore(c)
    /\ Depth = 0 =>
          /\ Pending = {}
          /\ \A c \in Conns : hist[c].destroyed # "no" => ~InStore(c)
    /\ ~cns_.failed
    /\ \A c \in Conns : TokenAlive(c) => InStore(c)
    /\ size(cns_) = Cardinality({c \in Conns : TokenAlive(c)}) + Cardinality(Pending)

\* C7 witness: a nested broadcast has gone through its handles and is about
\* to return while two disconnections wait, after an earlier outermost
\* broadcast released what had been deferred during it.
C7_Witness ==
    /\ Depth = 2
    /\ visiting_ = 2
    /\ Finished(Top)
    /\ Cardinality(deferred_disconnect_) = 2
    /\ to_disconnect_ # {}

\* C8: a pass calls only callbacks connected before it started, and when it
\* has gone through its handles it has called, once, every callback connected
\* before it started that is still connected.
C8_ConnectedDuringPass ==
    \A k \in 1..Depth :
        LET f == stack[k]
        IN  /\ \A i \in 1..Len(f.fired) : f.fired[i].cb <= f.born
            /\ Finished(f) =>
                  \A c \in Conns :
                     (c <= f.born /\ TokenAlive(c)) => Count(c, FiredCbs(f)) = 1

\* C8 witness: a pass has gone through its handles without calling a callback
\* that was connected during it and is still connected.
C8_Witness ==
    /\ Depth = 1
    /\ Finished(Top)
    /\ Len(Top.fired) >= 1
    /\ \E c \in Conns : c > Top.born /\ TokenAlive(c) /\ Count(c, FiredCbs(Top)) = 0

\* The connections made before frame f started whose token had not been
\* destroyed before the outermost broadcast started.
ConnectedAtStart(f) == {c \in Conns : c <= f.born /\ hist[c].destroyed # "past"}

\* C9 (callbacks that only disconnect themselves): when a pass has gone
\* through its handles it has called each of the N callbacks connected at its
\* start once, N calls in all, those that disconnected themselves included,
\* and none that disconnected itself in an earlier pass.
C9_SelfDisconnect ==
    (Depth > 0 /\ Finished(Top)) =>
        /\ Len(Top.fired) = Cardinality(ConnectedAtStart(Top))
        /\ \A c \in ConnectedAtStart(Top) : Count(c, FiredCbs(Top)) = 1
        /\ \A c \in Conns : hist[c].destroyed = "past" => Count(c, FiredCbs(Top)) = 0

\* C9 witness: a pass over two callbacks has ended after a callback
\* disconnected itself in the pass before it, and another in this one.
C9_Witness ==
    /\ Depth > 0
    /\ Finished(Top)
    /\ Len(Top.fired) = 2
    /\ \E c \in Conns : hist[c].destroyed = "past" /\ c <= Top.born
    /\ \E c \in Conns : hist[c].destroyed = "pass"

\* C10: every callback is called with its connection still connected: none is
\* called after it was disconnected.
C10_NoCallAfterDisconnect ==
    \A k \in 1..Depth : \A i \in 1..Len(stack[k].fired) : stack[k].fired[i].alive

\* C10 witness: a nested broadcast has gone through its handles and has
\* passed over an entry of its snapshot.
C10_Witness ==
    /\ Depth = 2
    /\ Finished(Top)
    /\ Len(Top.fired) < Len(Top.cbs)

\* C11 as claimed: an entry of the snapshot whose turn has passed has been
\* called, whether or not its connection was removed during the pass.
C11_QueuedStillFires ==
    \A k \in 1..Depth :
        LET f == stack[k]
        IN  \A i \in 1..Len(f.cbs) :
                i < f.pos => Count(f.cbs[i], FiredCbs(f)) = 1

\* C11 as amended: removing a connection never cancels a call that has
\* started (the record of a callback that is running stays in its slot, its
\* token destroyed or not), and an entry of the snapshot the pass has gone
\* past without calling is one whose connection was removed before its turn.
C11_StartedCallNotCancelled ==
    \A k \in 1..Depth :
        LET f == stack[k]
        IN  /\ f.in_cb => InStore(f.fired[Len(f.fired)].cb)
            /\ \A i \in 1..Len(f.cbs) :
                  (i < f.pos /\ Count(f.cbs[i], FiredCbs(f)) = 0)
                      => hist[f.cbs[i]].destroyed = "pass"

\* C11 witness: a callback is running whose own connection was removed after
\* it was called, and the pass went past an earlier entry without calling it.
C11_Witness ==
    /\ Depth > 0
    /\ Top.in_cb
    /\ ~TokenAlive(Running)
    /\ InStore(Running)
    /\ Len(Top.fired) < Top.pos

\* A step that destroys token t while no broadcast is in progress.
TopLevelDestroy(t) == Depth = 0 /\ tokens[t].alive /\ ~tokens'[t].alive

\* C15, the step: destroying a token while no broadcast is in progress frees
\* its slot in that step and no other: the occupied handles are those of
\* before less the token's, nothing waits in deferred_disconnect_, and every
\* other connection keeps its record.
C15_ReleasesOnlyItsSlot ==
    \A t \in DOMAIN tokens :
        TopLevelDestroy(t) =>
            /\ ~cns_'.failed
            /\ Range(active_handles(cns_')) = Range(active_handles(cns_)) \ {tokens[t].handle}
            /\ size(cns_') = size(cns_) - 1
            /\ deferred_disconnect_' = {}
            /\ \A d \in Conns \ {t} : InStore(d) => InStore(d)'

\* C15, the broadcasts: no pass calls a callback whose token was destroyed
\* before the outermost broadcast started, and a pass that has gone through
\* its handles has called every connection made before it and still connected
\* exactly once.
C15_OnlyConnectedAreCalled ==
    \A k \in 1..Depth :
        LET f == stack[k]
        IN  /\ \A c \in Conns : hist[c].destroyed = "past" => Count(c, FiredCbs(f)) = 0
            /\ Finished(f) =>
                  \A c \in Conns :
                     (c <= f.born /\ TokenAlive(c)) => Count(c, FiredCbs(f)) = 1

\* C15: destroying a token outside any broadcast releases exactly its slot at
\* once, its callback is called by no later broadcast, and the other
\* connections stay connected and are called once per broadcast.
C15_DestroyOutsideBroadcast ==
    []C15_OnlyConnectedAreCalled /\ [][C15_ReleasesOnlyItsSlot]_vars

\* C15 witness: a broadcast has gone through its handles and called a
\* callback, after a token connected before it was destroyed outside any
\* broadcast (nothing was ever deferred).
C15_Witness ==
    /\ Depth = 1
    /\ Finished(Top)
    /\ Len(Top.fired) >= 1
    /\ to_disconnect_ = {}
    /\ deferred_disconnect_ = {}
    /\ \E c \in Conns : hist[c].destroyed = "past" /\ c <= Top.born

----------------------------------------------------------------------------
(* Claims about the destruction of the signal *)

\* C12: once the signal has been destroyed, every token that was alive then
\* has a null back-reference (and so has every token still alive), the slot
\* of each was released by the destructor exactly once and is free, and no
\* token destroyed or assigned to afterwards has called disconnect or update
\* on the signal.
C12_DestroyedSignalLeavesTokensInert ==
    ~life.alive =>
        /\ \A t \in DOMAIN tokens : tokens[t].alive => tokens[t].signal = Null
        /\ \A t \in life.live :
              /\ tokens[t].signal = Null
              /\ hist[t].handle \in life.once
              /\ hist[t].handle \notin life.twice
              /\ ~contains(cns_.current_, hist[t].handle)
        /\ size(cns_) = 0
        /\ ~life.touched

\* C12 witness: the signal was destroyed outside any broadcast while two
\* tokens were alive, and one of them has been destroyed since.
C12_Witness ==
    /\ ~life.alive
    /\ life.at = 0
    /\ Cardinality(life.live) >= 2
    /\ \E t \in life.live : ~tokens[t].alive
    /\ \E t \in life.live : tokens[t].alive

\* C13 as claimed: after a callback has destroyed the signal, the broadcast
\* in progress neither reads nor writes a member of the signal, the
\* destructor released no slot twice, and it wrote through the body pointer
\* of no destroyed token.
C13_SafeDestructionMidBroadcast ==
    (~life.alive /\ life.at > 0) =>
        /\ ~life.uaf
        /\ life.twice = {}
        /\ ~life.dangling

----------------------------------------------------------------------------
(* Claims about moving the signal *)

\* The callbacks a broadcast entered now would go through, in order.
WouldCall(s) == [i \in 1..Len(active_handles(s)) |-> record_at(s, active_handles(s)[i]).cb]

\* C14, the move: the step that moves the second signal into the first
\* leaves in the first exactly the records the second had, at their handles,
\* so a broadcast entered then goes through exactly the callbacks that were
\* connected to the second, and leaves every live token of the second
\* pointing at the first with its entry at its handle.
C14_MoveTakesConnections ==
    (other.moved = "no" /\ other'.moved # "no") =>
        /\ active_handles(cns_') = active_handles(other.cns_)
        /\ WouldCall(cns_') = WouldCall(other.cns_)
        /\ Range(WouldCall(cns_')) = {c \in Conns : TokenAlive(c) /\ tokens[c].signal = Other}
        /\ \A c \in Conns :
              (TokenAlive(c) /\ tokens[c].signal = Other) =>
                  /\ tokens'[c].signal = This
                  /\ tokens'[c].alive
                  /\ InStore(c)'
        /\ ~cns_'.failed

\* C14, afterwards: every live token that was connected to the second signal
\* points at the first. As long as every token the first signal had of its
\* own before the move is alive: each such live token has its entry in the
\* first signal and each destroyed one has none once no broadcast is in
\* progress, no release hit a free slot, and a broadcast calls none of the
\* first signal's own earlier callbacks and, when it has gone through its
\* handles, has called every callback of the second whose token is alive
\* exactly once.
C14_AfterMove ==
    other.moved # "no" =>
        /\ \A c \in other.sources : TokenAlive(c) => tokens[c].signal = This
        /\ (\A o \in other.old : TokenAlive(o)) =>
              /\ ~cns_.failed
              /\ \A c \in other.sources : TokenAlive(c) => InStore(c)
              /\ Depth = 0 => \A c \in other.sources : ~TokenAlive(c) => ~InStore(c)
              /\ \A k \in 1..Depth :
                    LET f == stack[k]
                    IN  /\ \A o \in other.old : Count(o, FiredCbs(f)) = 0
                        /\ Finished(f) =>
                              \A c \in other.sources :
                                  TokenAlive(c) => Count(c, FiredCbs(f)) = 1

C14_WitnessCtor ==
    /\ other.moved = "ctor"
    /\ Cardinality(other.sources) = 2
    /\ \E c \in other.sources : ~TokenAlive(c)
    /\ Depth = 1
    /\ Finished(Top)
    /\ Len(Top.fired) = 1

----------------------------------------------------------------------------
(* Claims about the lock-free processor *)

\* The ids of the items handed to the processor function, in order.
ProcessedIds == [k \in 1..Len(tally.processed) |-> tally.processed[k].id]

\* Every pusher made is still held, every push made so far was made before
\* the last process_all started, and that call has returned.
PushedThenProcessed ==
    /\ consumer.state = "idle"
    /\ tally.ran
    /\ ~tally.dirty
    /\ tally.released = {}

\* C16 as claimed: once the items were pushed and process_all has run, every
\* item pushed has been handed to the processor function exactly once,
\* whatever the initial sizes of the queues.
C16_AllProcessedOnce ==
    PushedThenProcessed =>
        /\ Len(tally.processed) = tally.nitems
        /\ \A n \in 1..tally.nitems : Count(n, ProcessedIds) = 1

\* C16 as amended: no item is ever handed over twice; a push fails its
\* assert only in the _DEBUG build; and when no push failed it, once the
\* items were pushed and process_all has run every item pushed has been
\* handed to the processor function exactly once.
C16_AllProcessedOnceUnlessFull ==
    /\ \A n \in 1..tally.nitems : Count(n, ProcessedIds) <= 1
    /\ tally.failed => tally.build = "debug"
    /\ (PushedThenProcessed /\ ~tally.failed) =>
          /\ Len(tally.processed) = tally.nitems
          /\ \A n \in 1..tally.nitems : Count(n, ProcessedIds) = 1

\* C16 witness: MaxItems items pushed through two pushers have all been
\* processed, one of the queues having grown on the way.
C16_Witness ==
    /\ PushedThenProcessed
    /\ ~tally.failed
    /\ Len(tally.processed) = MaxItems
    /\ \E j, k \in 1..Len(tally.processed) : tally.processed[j].by # tally.processed[k].by
    /\ \E k \in 1..Len(pushers_) : pushers_[k].q.push_index_ = 1

\* The ids of the items in queue_pair_[idx] of body b.
IdsIn(b, idx) ==
    {b.q.queue_pair_[idx + 1].items[j].id : j \in 1..Len(b.q.queue_pair_[idx + 1].items)}

\* The ids of the items in queue_pair_[idx] of the body at place k.
QueuedIds(k, idx) == IdsIn(pushers_[k], idx)

\* The ids of the items in the queue pushed to of a body made during
\* process_all and not yet among pushers_.
AwaitingAdd ==
    UNION {IdsIn(deferred_add_[k], deferred_add_[k].q.push_index_) :
              k \in 1..Len(deferred_add_)}

\* queue_pair_[idx] of the body at place k is one process_all gets to: the
\* one pushed to, or the old one of a growth the consumer is draining.
WillBeDrained(k, idx) ==
    \/ pushers_[k].q.push_index_ = idx
    \/ /\ consumer.state \in {"drain", "cb"}
       /\ consumer.i = k
       /\ consumer.buf = idx

\* C17 as claimed (build without _DEBUG, no pusher released): every item
\* whose push has returned has been handed to the processor function once or
\* waits in a queue that process_all gets to; none is lost and none sits in
\* the queue that is not pushed to.
C17_NoItemLostOrStranded ==
    tally.build = "release" =>
        \A n \in tally.done :
            \/ Count(n, ProcessedIds) = 1
            \/ /\ Count(n, ProcessedIds) = 0
               /\ \/ n \in AwaitingAdd
                  \/ \E k \in 1..Len(pushers_) : \E idx \in {0, 1} :
                        n \in QueuedIds(k, idx) /\ WillBeDrained(k, idx)

\* The step of QueueProcessAll: process_all of one queue starts.
QueueStarts == consumer.state = "next" /\ consumer'.state = "drain"

\* C18, the step, as claimed: the queue grows exactly when the items in the
\* queue pushed to are more than half of size_; then size_ doubles, the
\* other queue of the pair is replaced by a strictly larger one and becomes
\* the one pushed to, the old one keeps its items and is drained first;
\* otherwise nothing changes and the queue pushed to is drained.
C18_GrowthStepStrict ==
    QueueStarts =>
        LET q == pushers_[consumer.i].q
            q2 == pushers_'[consumer.i].q
            old == q.push_index_
            occ == Len(q.queue_pair_[old + 1].items)
        IN  IF 2 * occ > q.size_
            THEN /\ q2.size_ = 2 * q.size_
                 /\ q2.push_index_ = 1 - old
                 /\ q2.queue_pair_[q2.push_index_ + 1].max > q.queue_pair_[old + 1].max
                 /\ q2.queue_pair_[q2.push_index_ + 1].items = <<>>
                 /\ q2.queue_pair_[old + 1] = q.queue_pair_[old + 1]
                 /\ consumer'.buf = old
                 /\ ~consumer'.last
            ELSE /\ q2 = q
                 /\ consumer'.buf = old
                 /\ consumer'.last

\* C18, the step, as amended: the same, the new queue being made with the
\* doubled size_, which is larger than the old one when size_ is not 0.
C18_GrowthStep ==
    QueueStarts =>
        LET q == pushers_[consumer.i].q
            q2 == pushers_'[consumer.i].q
            old == q.push_index_
            occ == Len(q.queue_pair_[old + 1].items)
        IN  IF 2 * occ > q.size_
            THEN /\ q2.size_ = 2 * q.size_
                 /\ q2.push_index_ = 1 - old
                 /\ q2.queue_pair_[q2.push_index_ + 1].max = 2 * q.size_
                 /\ q.size_ > 0 =>
                       q2.queue_pair_[q2.push_index_ + 1].max > q.queue_pair_[old + 1].max
                 /\ q2.queue_pair_[q2.push_index_ + 1].items = <<>>
                 /\ q2.queue_pair_[old + 1] = q.queue_pair_[old + 1]
                 /\ consumer'.buf = old
                 /\ ~consumer'.last
            ELSE /\ q2 = q
                 /\ consumer'.buf = old
                 /\ consumer'.last

\* C18, the order: while a queue is processed, the queue being drained is
\* the one pushed to unless the queue grew and the old one is not yet empty;
\* when the queue pushed to is drained after a growth the old one is empty;
\* and an item is handed over only from the queue being drained.
C18_DrainOrder ==
    consumer.state \in {"drain", "cb"} =>
        LET q == pushers_[consumer.i].q
        IN  /\ consumer.active = q.push_index_
            /\ consumer.last <=> consumer.buf = consumer.active
            /\ ~consumer.grew => consumer.last
            /\ consumer.last => q.queue_pair_[2 - consumer.active].items = <<>>
            /\ q.queue_pair_[q.push_index_ + 1].max = q.size_

\* C18 as claimed.
C18_GrowsAndDrainsOldFirstStrict ==
    []C18_DrainOrder /\ [][C18_GrowthStepStrict]_vars

\* C18 as amended: a queue grows on process_all exactly when it holds more
\* than half of size_ items at the start; size_ doubles, a new queue of the
\* doubled size becomes the one pushed to, the old one is drained completely
\* before the new one; otherwise nothing changes and only the queue pushed
\* to is drained.
C18_GrowsAndDrainsOldFirst ==
    []C18_DrainOrder /\ [][C18_GrowthStep]_vars

\* C18 witness: after a growth to a size of 2 or more the old queue has been
\* drained and an item pushed meanwhile is being processed from the new one.
C18_Witness ==
    /\ consumer.state = "cb"
    /\ consumer.grew
    /\ consumer.last
    /\ pushers_[consumer.i].q.size_ >= 2
    /\ Len(tally.processed) >= 2

\* C19 as claimed (lock-free processor): no item is handed to the processor
\* function after the pusher it was pushed through was released.
C19_NoItemOfReleasedPusherProcessed ==
    \A k \in 1..Len(tally.processed) : ~tally.processed[k].stale

----------------------------------------------------------------------------
(* Claims about the locking processor *)

\* C20 as claimed: while the processor function runs the consumer thread
\* holds no lock, no call made from inside the function has stopped the
\* thread, made the lock throw or gone against the rules of std::mutex,
\* and a producer thread that has called push or release is not kept
\* waiting by a lock the consumer holds.
C20_NoLockHeldWhileProcessing ==
    /\ cthread.pc = "cb" => mutex_ # "consumer"
    /\ cthread.pc # "blocked"
    /\ ~lk.threw
    /\ ~lk.ub
    /\ (pthread.pc = "waiting" /\ cthread.pc \in {"cb", "blocked"}) => mutex_ = "none"

\* C20: a push made from inside the processor function has stopped the
\* consumer thread on mutex_, and a producer thread waits for it too.
C20_Witness ==
    /\ cthread.pc = "blocked"
    /\ mutex_ = "consumer"
    /\ pthread.pc = "waiting"
    /\ pthread.op = "push"

\* The items of a sequence, as a set.
Items(seq) == {seq[k] : k \in 1..Len(seq)}

\* The items the consumer took from the queue it is draining and has not
\* yet passed to the processor function.
TakenNotStarted ==
    IF cthread.pc = "drain" THEN Items(cthread.queue)
    ELSE IF cthread.pc \in {"cb", "blocked"} THEN Items(Tail(cthread.queue))
    ELSE {}

\* C21: with pushes made by a producer thread or between process_all calls,
\* no item is passed to the processor function twice, and an item pushed
\* through a pusher that is still held has been passed to it once, or is
\* in the queue of its pusher, or was taken by the process_all in progress
\* and is still to be passed, or its push is waiting for the lock.
C21_LockingEachItemOnce ==
    \A n \in 1..lk.nitems :
        LET h == lk.via[n]
            where == <<Count(n, lk.processed) = 1,
                       n \in Items(queues_.cells_[h + 1].value),
                       n \in TakenNotStarted,
                       pthread.pc = "waiting" /\ pthread.item = n>>
        IN  /\ Count(n, lk.processed) <= 1
            /\ h \in lk.held => Cardinality({k \in 1..4 : where[k]}) = 1

\* C21 witness: the producer thread has called push while the consumer is
\* inside the processor function, an item of the producer has already been
\* passed to it, and every item pushed but the waiting one was.
C21_Witness ==
    /\ cthread.pc = "cb"
    /\ pthread.pc = "waiting"
    /\ pthread.op = "push"
    /\ lk.nitems = MaxLkItems
    /\ Len(lk.processed) = MaxLkItems - 1

----------------------------------------------------------------------------
(* Claims about process_all of the three processors *)

\* C22 as claimed (lock-free processor, a processor function that returns,
\* items pushed and pushers made and released from inside it at most a
\* bounded number of times): a process_all call that has started returns.
C22_ProcessAllReturns == (consumer.state # "idle") ~> (consumer.state = "idle")

\* C22: process_all has reached the loop over deferred_remove_ after a
\* pusher was released from inside the processor function.
C22_Witness ==
    /\ consumer.state = "stuck"
    /\ tally.released # {}

\* serial_processor::process_all has made its last call of the processor
\* function and is about to return.
SerialDrained == sthread.pc = "while" /\ total_items_ <= 0

\* The calls of the processor function, during the process_all in
\* progress, with the item at the index of the pusher, for items that were
\* pushed before it started.
CallsFor(h, index) ==
    {k \in 1..Len(sr.processed) :
        /\ sr.processed[k].h = h
        /\ sr.processed[k].index = index
        /\ ~sr.processed[k].same}

\* C23 as claimed (serial processor): the processor function is never
\* called with an item by the process_all call during which the item was
\* pushed.
C23_ArrivingWorkWaits ==
    \A k \in 1..Len(sr.processed) : ~sr.processed[k].same

\* C23: an item pushed from inside the processor function has been passed
\* to it by the same process_all call, after the slot pass during which it
\* was pushed.
C23_Witness ==
    /\ sthread.pc = "cb"
    /\ Len(sr.processed) = 2
    /\ ~sr.processed[1].same
    /\ sr.processed[2].same
    /\ sr.processed[2].h = sr.processed[1].h

\* C24 as claimed: when process_all has made its calls, each index pushed
\* through a pusher since the process_all before, once or more, has had
\* one call of the processor function.
C24_OneCallPerIndex ==
    SerialDrained =>
        \A e \in sr.want : Cardinality(CallsFor(e.h, e.index)) = 1

\* C24 for items that convert to true: one call for each index pushed.
C24_OneCallPerIndexOfTrueItems ==
    SerialDrained =>
        \A e \in sr.want :
            truthy(e.first) => Cardinality(CallsFor(e.h, e.index)) = 1

\* C24: an index pushed twice with items that convert to false has had two
\* calls.
C24_Witness ==
    /\ SerialDrained
    /\ \E e \in sr.want : e.first # e.last /\ Cardinality(CallsFor(e.h, e.index)) = 2

\* C25 as claimed: the call made for an index pushed more than once gets
\* the item pushed last.
C25_LastPayloadUsed ==
    SerialDrained =>
        \A e \in sr.want : \A k \in CallsFor(e.h, e.index) :
            sr.processed[k].item = e.last

\* C25 as amended: when the item pushed first at an index converts to
\* true, the call made for the index gets that item; the items pushed at
\* the index after it are dropped.
C25_FirstPayloadKept ==
    SerialDrained =>
        \A e \in sr.want : truthy(e.first) =>
            /\ CallsFor(e.h, e.index) # {}
            /\ \A k \in CallsFor(e.h, e.index) : sr.processed[k].item = e.first

\* C25 witness: an index was pushed twice with different items, the first
\* converting to true, and the call for it has been made.
C25_Witness ==
    /\ SerialDrained
    /\ \E e \in sr.want :
          /\ truthy(e.first)
          /\ e.first # e.last
          /\ CallsFor(e.h, e.index) # {}

\* The handles of the slots that exist.
LiveSlots == {h \in 0..(Len(slots_.cells_) - 1) : slots_.cells_[h + 1].live}

\* The items in an item_vector.
ItemsOf(v) == Items(v.items_) \cup {v.indexed_items_[i + 1] : i \in Items(v.indices_)}

\* The items the processor function has been called with during the
\* process_all in progress.
CalledWith == {sr.processed[k].item : k \in 1..Len(sr.processed)}

\* C26, a push: a push that changes a slot which is processing leaves its
\* items_ as they are and puts the item into pushed_while_processing_.
C26_PushIsBuffered ==
    (sr'.nitems # sr.nitems /\ ~sr.ub) =>
        \A h \in LiveSlots :
            LET s == SlotAt(slots_, h)
                t == SlotAt(slots_', h)
            IN  (s.processing_ /\ t # s) =>
                    /\ t.items_ = s.items_
                    /\ ItemsOf(t.pushed_while_processing_) \
                           ItemsOf(s.pushed_while_processing_)
                         \in {{sr'.nitems}, {-sr'.nitems}}
                    /\ t.total_items_ = s.total_items_ + 1

\* C26, the end of a pass: when slot::process_all ends, the items pushed
\* meanwhile become items_ and pushed_while_processing_ is empty.
C26_BufferSwappedIn ==
    (sthread.pc = "pass" /\ sthread'.pc \in {"while", "for"} /\ ~sr.ub) =>
        LET s == SlotAt(slots_, sthread.h)
            t == SlotAt(slots_', sthread.h)
        IN  /\ t.items_ = s.pushed_while_processing_
            /\ t.pushed_while_processing_ = EmptyItemVector
            /\ ~t.processing_
            /\ t.total_items_ = Len(t.items_.items_) + Len(t.items_.indices_)

\* C26, during a pass: only the slot being processed is processing, only
\* it holds items pushed while processing, and none of these has been
\* passed to the processor function.
C26_BufferedNotCalled ==
    ~sr.ub =>
        \A h \in LiveSlots :
            LET s == SlotAt(slots_, h)
            IN  /\ s.processing_ <=> (sthread.pc \in {"pass", "cb"} /\ sthread.h = h)
                /\ ~s.processing_ => s.pushed_while_processing_ = EmptyItemVector
                /\ ItemsOf(s.pushed_while_processing_) \cap CalledWith = {}

\* C26: items pushed to a slot that is processing go to
\* pushed_while_processing_ and leave the list being iterated alone, they
\* are not passed to the processor function by the pass that is running,
\* and they become items_ when it ends.
C26_PushedWhileProcessing ==
    /\ []C26_BufferedNotCalled
    /\ [][C26_PushIsBuffered]_vars
    /\ [][C26_BufferSwappedIn]_vars

\* C26 witness: the pass of a slot has ended and the item pushed to it
\* during the pass is its items_, not yet passed to the processor function.
C26_Witness ==
    /\ sthread.pc \in {"while", "for"}
    /\ sr.fresh # {}
    /\ sr.fresh \cap CalledWith = {}
    /\ \E h \in LiveSlots : sr.fresh \subseteq ItemsOf(SlotAt(slots_, h).items_)

\* C27, the release: a release of the pusher of the slot being processed
\* changes nothing but deferred_release_, which gets the handle.
C27_ReleaseIsRecorded ==
    (~sr.ub /\ sr'.held # sr.held) =>
        \A h \in sr.held \ sr'.held :
            SlotAt(slots_, h).processing_ =>
                /\ slots_' = slots_
                /\ busy_slots_' = busy_slots_
                /\ total_items_' = total_items_
                /\ deferred_release_' = Append(deferred_release_, h)

\* C27, the end of process_all: the slots of deferred_release_ exist until
\* then and are erased, once each; busy_slots_ and deferred_release_ are
\* empty afterwards.
C27_DeferredApplied ==
    (~sr.ub /\ sthread.pc = "while" /\ sthread'.pc = "idle") =>
        /\ \A h \in Items(deferred_release_) :
              slots_.cells_[h + 1].live /\ ~slots_'.cells_[h + 1].live
        /\ slots_'.size_ = slots_.size_ - Len(deferred_release_)
        /\ busy_slots_' = <<>>
        /\ deferred_release_' = <<>>

\* C27, at all times: the handles of deferred_release_ are different, are
\* those of slots that exist and whose pusher is gone, and are there only
\* during process_all.
C27_DeferredPending ==
    ~sr.ub =>
        /\ \A j, k \in 1..Len(deferred_release_) :
              deferred_release_[j] = deferred_release_[k] => j = k
        /\ \A h \in Items(deferred_release_) : h \in LiveSlots /\ h \notin sr.held
        /\ sthread.pc = "idle" => deferred_release_ = <<>>

\* C27: releasing a pusher from inside the processor function while its
\* slot is processing only records the handle; the slot is erased, once,
\* when process_all ends, and is then in neither list.
C27_ReleaseDeferred ==
    /\ []C27_DeferredPending
    /\ [][C27_ReleaseIsRecorded]_vars
    /\ [][C27_DeferredApplied]_vars

\* C27 witness: process_all has made its calls and is about to erase the
\* slot of a pusher released from inside the processor function.
C27_Witness ==
    /\ SerialDrained
    /\ deferred_release_ # <<>>
    /\ Len(sr.processed) >= 1

----------------------------------------------------------------------------
(* Claims about the lock-free task processor *)

\* The pushers that have not been released.
LiveTaskPushers == {p \in DOMAIN task_pusher : task_pusher[p].processor_}

\* C28: no two live pushers of the task processor hold the same handle,
\* whatever make_pusher, release and process_all calls were made.
C28_DistinctHandles ==
    ~tp.ub =>
        \A p, q \in LiveTaskPushers :
            task_pusher[p].handle_ = task_pusher[q].handle_ => p = q

\* C28 witness: make_pusher took the overflow path with a pusher alive and
\* copied its handle into the other vector.
C28_Witness ==
    /\ ~tp.ub
    /\ overflow_
    /\ \E p \in LiveTaskPushers :
          /\ contains(queue_vec_pair_[push_index_ + 1].current_, task_pusher[p].handle_)
          /\ contains(queue_vec_pair_[2 - push_index_].current_, task_pusher[p].handle_)

\* The tasks in queue_pair_[idx] of the queue at handle of vector vec.
TasksIn(vec, handle, idx) == Items(QueueAt(vec, handle).queue_pair_[idx + 1].items)

\* process_all gets to the queue at handle of vector vec: the vector is the
\* one pushed to, or a flip is due and both vectors will be gone through,
\* or the loop in progress is over this vector and has not passed the handle.
TaskVecDrained(vec, handle) ==
    \/ vec = push_index_
    \/ overflow_ /\ TaskConsumerIdle
    \/ /\ tconsumer.pc # "idle"
       /\ tconsumer.vec = vec
       /\ \E k \in tconsumer.pos..Len(tconsumer.handles) : tconsumer.handles[k] = handle

\* The loop of process_all is at the queue at handle of vector vec and
\* drains queue_pair_[idx] of it.
TaskQueueDraining(vec, handle, idx) ==
    /\ tconsumer.pc = "drain"
    /\ tconsumer.vec = vec
    /\ tconsumer.handles[tconsumer.pos] = handle
    /\ tconsumer.buf = idx

\* No other pusher was given the handle of pusher p.
OwnHandle(p) ==
    \A q \in DOMAIN task_pusher : task_pusher[q].handle_ = task_pusher[p].handle_ => q = p

\* C29: with make_pusher, release and process_all on the consumer thread and
\* pushes on the producer thread, no task is run twice, and every task
\* whose push has returned, pushed through a pusher still alive (and the
\* only one that got its handle), has been run once or waits in a queue that
\* process_all gets to.
C29_NoTaskLostOrStranded ==
    ~tp.ub =>
        \A e \in tp.done :
            /\ Count(e.task, tp.executed) <= 1
            /\ (task_pusher[e.p].processor_ /\ OwnHandle(e.p)) =>
                  \/ Count(e.task, tp.executed) = 1
                  \/ \E vec \in {0, 1}, idx \in {0, 1} :
                        LET handle == task_pusher[e.p].handle_
                        IN  /\ contains(queue_vec_pair_[vec + 1].current_, handle)
                            /\ e.task \in TasksIn(vec, handle, idx)
                            /\ TaskVecDrained(vec, handle)
                            /\ \/ QueueAt(vec, handle).push_index_ = idx
                               \/ TaskQueueDraining(vec, handle, idx)

\* C29 witness: a task was pushed while make_pusher took the overflow path,
\* and process_all has run it after the flip.
C29_Witness ==
    /\ ~tp.ub
    /\ Len(tp.executed) = 1
    /\ tconsumer.old
    /\ Len(task_pusher) >= 2

----------------------------------------------------------------------------
(* Claims about the stable_vector *)

\* C30: is_valid is true exactly for the handles that add returned and that
\* were not erased since.
C30_IsValidExact ==
    checked.index >= 0 => (checked.out <=> checked.index \in LiveHandles(vector))

\* is_valid is never true for a handle that was erased or not issued.
C30_NotValidUnlessLive ==
    (checked.index >= 0 /\ checked.out) => checked.index \in LiveHandles(vector)

\* position_ is the lowest index that holds no element, inside the cells or
\* just past them.
C30_PositionIsLowestEmpty ==
    /\ vector.position_ <= Len(vector.cells_)
    /\ vector.position_ \notin LiveHandles(vector)
    /\ \A h \in 0..(vector.position_ - 1) : h \in LiveHandles(vector)
    /\ vector.size_ = Cardinality(LiveHandles(vector))

\* C30 witness: is_valid was called with a live handle that is not smaller
\* than the number of elements.
C30_Witness ==
    /\ checked.index \in LiveHandles(vector)
    /\ checked.index >= vector.size_

\* C31: every add makes exactly one new handle reachable by iteration, the
\* handle it returns; every erase of a live handle makes exactly that handle
\* unreachable; the other handles stay reachable and keep their values; and
\* size() is the number of handles iteration reaches, each reached once.
C31_SizeIsReachable ==
    /\ vector.size_ = Len(Forward(vector))
    /\ Cardinality(Range(Forward(vector))) = Len(Forward(vector))

C31_AddEraseStep ==
    LET old == Range(Forward(vector))
        new == Range(Forward(vector'))
        erased == LiveHandles(vector) \ LiveHandles(vector')
    IN  /\ vector'.size_ = vector.size_ + 1 =>
            /\ vector.position_ \notin old
            /\ new = old \cup {vector.position_}
            /\ \A h \in old : vector'.cells_[h + 1].value = vector.cells_[h + 1].value
        /\ vector'.size_ = vector.size_ - 1 =>
            /\ Cardinality(erased) = 1
            /\ erased \subseteq old
            /\ new = old \ erased
            /\ \A h \in new : vector'.cells_[h + 1].value = vector.cells_[h + 1].value

C31_AddEraseExact == []C31_SizeIsReachable /\ [][C31_AddEraseStep]_vars

\* C31 witness: an element in the middle of three was erased and the two
\* around it are the ones iteration reaches.
C31_Witness ==
    /\ Forward(vector) = <<0, 2>>
    /\ Len(vector.cells_) = 3
    /\ vector.size_ = 2

\* C32: add stores at the lowest index that holds no element; forward
\* iteration visits the live indices in strictly ascending order and reverse
\* iteration visits them in strictly descending order; front_, back_ and
\* the links of the live cells form one doubly linked list of exactly the
\* live indices.
Reversed(seq) == [i \in 1..Len(seq) |-> seq[Len(seq) + 1 - i]]

C32_LinkedAscending ==
    LET fwd == Forward(vector)
    IN  /\ StrictlyAscending(fwd)
        /\ Range(fwd) = LiveHandles(vector)
        /\ Reverse(vector) = Reversed(fwd)
        /\ vector.front_ = (IF fwd = <<>> THEN -1 ELSE fwd[1])
        /\ vector.back_ = (IF fwd = <<>> THEN -1 ELSE fwd[Len(fwd)])
        /\ \A i \in 1..Len(fwd) :
              /\ vector.cells_[fwd[i] + 1].prev = (IF i = 1 THEN -1 ELSE fwd[i - 1])
              /\ vector.cells_[fwd[i] + 1].next = (IF i = Len(fwd) THEN -1 ELSE fwd[i + 1])

C32_AddStep ==
    vector'.size_ = vector.size_ + 1 =>
        LET free == (0..Len(vector.cells_)) \ LiveHandles(vector)
            handle == CHOOSE h \in LiveHandles(vector') \ LiveHandles(vector) : TRUE
        IN  /\ Cardinality(LiveHandles(vector') \ LiveHandles(vector)) = 1
            /\ handle \in free
            /\ \A h \in free : handle <= h

C32_LowestIndexAscending == []C32_LinkedAscending /\ [][C32_AddStep]_vars

\* C32 witness: with two holes below the last element, an add filled the
\* lower one and iteration visits it between its neighbours.
C32_Witness ==
    /\ Forward(vector) = <<0, 1, 3>>
    /\ vector.position_ = 2
    /\ Len(vector.cells_) = 4

\* C33: a loop that erases the element at its iterator and then advances
\* the iterator visits, forwards and backwards, every element that was live
\* when it started exactly once and in order; when it erased every element
\* it visited, the vector is empty afterwards: size() is 0, begin() == end()
\* and rbegin() == rend().
C33_EraseWhileIterating ==
    walk.active =>
        /\ Len(walk.visited) <= Len(walk.start)
        /\ walk.visited = SubSeq(walk.start, 1, Len(walk.visited))
        /\ walk.position_ = (IF Len(walk.visited) = Len(walk.start) THEN -1
                             ELSE walk.start[Len(walk.visited) + 1])
        /\ (walk.position_ = -1 /\ walk.erased = Range(walk.start)) =>
              /\ vector.size_ = 0
              /\ vector.front_ = -1
              /\ vector.back_ = -1

\* C33 witness: a backward loop over three elements with a hole between
\* them has erased all three.
C33_Witness ==
    /\ walk.active /\ ~walk.forward
    /\ walk.position_ = -1
    /\ walk.visited = <<3, 1, 0>>
    /\ walk.erased = {0, 1, 3}

----------------------------------------------------------------------------
(* Claims about undo_redo *)

\* The undo commands of the last k commits, the latest first.
RECURSIVE UndoneLast(_, _)
UndoneLast(commits, k) ==
    IF k = 0 \/ commits = <<>> THEN <<>>
    ELSE <<[kind |-> "undo", n |-> commits[Len(commits)]]>>
         \o UndoneLast(SubSeq(commits, 1, Len(commits) - 1), k - 1)

\* C34: an undo_redo constructed with length 0 keeps every action: after n
\* commits without merging get_position() is n, and each of up to n undo
\* calls that follow returns true and runs the undo commands of the commits
\* in reverse commit order.
C34_UnlimitedHistory ==
    (mgr.length_ = 0 /\ ur.plain /\ ur.undone <= Len(ur.commits)) =>
        /\ mgr.position_ = Len(ur.commits) - ur.undone
        /\ ur.out = [i \in 1..ur.undone |-> TRUE]
        /\ ur.ran = UndoneLast(ur.commits, ur.undone)

\* The same for a history of length_ > 0 that the commits have not filled.
C34_LimitedHistory ==
    (mgr.length_ > 0 /\ ur.plain /\ ur.undone <= Len(ur.commits)
        /\ Len(ur.commits) <= mgr.length_) =>
        /\ mgr.position_ = Len(ur.commits) - ur.undone
        /\ ur.out = [i \in 1..ur.undone |-> TRUE]
        /\ ur.ran = UndoneLast(ur.commits, ur.undone)

\* An undo_redo constructed with length 0 holds no action at any time.
C34_HistoryEmpty ==
    mgr.length_ = 0 => (mgr.position_ = 0 /\ mgr.actions_ = <<>>)

\* C34 witness: two commits without merging were made on an undo_redo of
\* length 0 and undo, called once, returned false.
C34_Witness ==
    /\ mgr.length_ = 0
    /\ ur.plain
    /\ Len(ur.commits) = 2
    /\ ur.out = <<FALSE>>

----------------------------------------------------------------------------
(* Claims about the counters of the serial processor *)

\* The number of items an item_vector holds, as item_vector::clear counts
\* them.
Stored(v) == Len(v.items_) + Len(v.indices_)

\* The sum of total_items_ over the slots with the handles.
RECURSIVE SlotTotal(_, _)
SlotTotal(sv, handles) ==
    IF handles = {} THEN 0
    ELSE LET h == CHOOSE x \in handles : TRUE
         IN  SlotAt(sv, h).total_items_ + SlotTotal(sv, handles \ {h})

\* C35: in the serial processor total_items_ is the sum of the total_items_
\* of the slots, which for each slot is the number of items stored in its
\* items_ and pushed_while_processing_; every slot with a count other than
\* zero is in busy_slots_; the asserts of process_all hold (a busy slot
\* exists while items are left, the total is never negative); and when
\* process_all returns the total is 0 and busy_slots_ is empty.
C35_CountersAgree ==
    ~sr.ub =>
        /\ total_items_ = SlotTotal(slots_, LiveHandles(slots_))
        /\ \A h \in LiveHandles(slots_) :
              LET s == SlotAt(slots_, h)
              IN  /\ s.total_items_ = Stored(s.items_) + Stored(s.pushed_while_processing_)
                  /\ s.total_items_ # 0 => h \in Range(busy_slots_)
        /\ total_items_ >= 0
        /\ ~sr.spin

C35_ReturnStep ==
    (~sr.ub /\ sthread.pc = "while" /\ sthread'.pc = "idle") =>
        /\ total_items_' = 0
        /\ busy_slots_' = <<>>

----------------------------------------------------------------------------
(* Claims about moving and destroying pushers *)

\* The pushers that exist and have a processor.
OwningPushers == {p \in DOMAIN pusher : p \notin destroyed /\ pusher[p].processor_}

\* C36: after any sequence of make_pusher, move construction, move
\* assignment, release and destruction the processor holds as many
\* sub-queues as there are pushers that own one, each owned by one pusher:
\* assigning onto a pusher that owns a sub-queue releases that sub-queue,
\* and destroying a pusher that was moved from or released releases none.
C36_OneQueuePerPusher ==
    /\ Len(pushers_) = Cardinality(OwningPushers)
    /\ \A k \in DOMAIN pushers_ :
          \E p \in OwningPushers : pusher[p].body_ = pushers_[k].id

\* Destroying a pusher without a processor leaves the sub-queues as they
\* are, and no two pushers own the same sub-queue.
C36_DestroyStep ==
    \A p \in DOMAIN pusher :
        (p \notin destroyed /\ p \in destroyed' /\ ~pusher[p].processor_) =>
            pushers_' = pushers_

C36_NoneReleasedTwice ==
    /\ \A p, r \in OwningPushers : pusher[p].body_ = pusher[r].body_ => p = r
    /\ \A p \in OwningPushers : Places(pushers_, pusher[p].body_) # {}
    /\ ~tally.ub

C36_MovedFromReleasesNothing == []C36_NoneReleasedTwice /\ [][C36_DestroyStep]_vars

\* C36 witness: a pusher that owned a sub-queue was assigned another
\* pusher; the processor holds two sub-queues and one pusher owns one.
C36_Witness ==
    /\ Len(pushers_) = 2
    /\ Cardinality(OwningPushers) = 1
    /\ destroyed = {}

----------------------------------------------------------------------------
(* Claims about the indices of the lock-free pusher bodies *)

\* C37: whenever process_all of the lock-free processor is not running, the
\* index of every pusher body is its position in pushers_, also after
\* several make_pusher and release calls made from inside the processor
\* function.
C37_IndexIsPosition ==
    consumer.state = "idle" =>
        \A k \in DOMAIN pushers_ : pushers_[k].index = k - 1

\* A release between process_all calls removes the sub-queue of the pusher
\* released and no other.
C37_ReleaseStep ==
    \A p \in DOMAIN pusher :
        (consumer.state = "idle" /\ pusher[p].processor_ /\ ~pusher'[p].processor_) =>
            /\ Places(pushers_', pusher[p].body_) = {}
            /\ Len(pushers_') = Len(pushers_) - 1

C37_ReleasesOwnQueue == [][C37_ReleaseStep]_vars

\* C37 witness: process_all has returned after two pushers were made from
\* inside the processor function, and both bodies carry the same index.
C37_Witness ==
    /\ consumer.state = "idle"
    /\ tally.ran
    /\ Len(pushers_) = 3
    /\ pushers_[2].index = pushers_[3].index

----------------------------------------------------------------------------
(* Claims about the tokens of a signal that was assigned to *)

\* C38: after the first signal was move-assigned from the second, the
\* tokens connected to the first before the assignment no longer affect it:
\* destroying one of them releases no connection that came from the second
\* signal and releases no handle that is not occupied.
C38_OldTokensInert ==
    other.moved = "assign" =>
        /\ ~cns_.failed
        /\ \A c \in other.sources : TokenAlive(c) => InStore(c)

\* C38 witness: after the move assignment a token the first signal had
\* before was destroyed outside any broadcast while a token of the second
\* is alive.
C38_Witness ==
    /\ other.moved = "assign"
    /\ Depth = 0
    /\ \E o \in other.old : ~TokenAlive(o)
    /\ \E c \in other.sources : TokenAlive(c)

----------------------------------------------------------------------------
(* Claims about acquire after acquire_at *)

\* C39: acquire never returns an index that is occupied, also after
\* acquire_at calls: in every sequence of acquire, acquire_at of a free
\* index inside the buffer, release and reserve, the index acquire returns
\* was free when it was called and no assert of the store fails.
C39_AcquireReturnsFreeIndex ==
    /\ ret.op = "acquire" => ~contains(ret.before, ret.handle)
    /\ ~store.failed

\* C39 witness: acquire_at took the cell the cursor stood on and the next
\* call is an acquire.
C39_Witness ==
    /\ ret.op = "acquire_at"
    /\ ret.handle = store.next_
    /\ ~store.failed

----------------------------------------------------------------------------
(* Claims about the order of processing *)

\* The number of the push an item of the serial processor was pushed with.
PushNumber(item) == IF item < 0 THEN -item ELSE item

\* C40: the items pushed through one pusher with push are passed to the
\* processor function in the order they were pushed, in the lock-free
\* processor (where a queue may grow and flip between pushes), in the
\* locking processor (where process_all takes the queue away) and in the
\* serial processor (where items pushed during a pass wait in
\* pushed_while_processing_).
C40_PushOrderKept ==
    /\ \A i, j \in DOMAIN tally.processed :
          (i < j /\ tally.processed[i].by = tally.processed[j].by) =>
              tally.processed[i].id < tally.processed[j].id
    /\ \A i, j \in DOMAIN lk.processed :
          (i < j /\ lk.via[lk.processed[i]] = lk.via[lk.processed[j]]) =>
              lk.processed[i] < lk.processed[j]
    /\ ~sr.ub =>
          \A i, j \in DOMAIN sr.processed :
              (/\ i < j
               /\ sr.processed[i].h = sr.processed[j].h
               /\ sr.processed[i].index = -1
               /\ sr.processed[j].index = -1) =>
                  PushNumber(sr.processed[i].item) < PushNumber(sr.processed[j].item)

\* C40 witness: two items pushed through one pusher of the lock-free
\* processor were processed, the second after the queue had grown and
\* flipped.
C40_Witness ==
    /\ Len(tally.processed) = 2
    /\ tally.processed[1].by = tally.processed[2].by
    /\ \E k \in DOMAIN pushers_ : pushers_[k].q.push_index_ = 1

====
